---- MODULE Spec2Model ----
(***************************************************************************)
(* Model of the sustained-note protocol of HighPerformanceAudioEngine      *)
(* (src/src/audio/AudioEngine.ts): the layer map, the sustained-note       *)
(* registry, the audio nodes of every sustained chain and the cleanup      *)
(* timers installed by stopSustainedNote.                                  *)
(*                                                                         *)
(* Units.  Velocity, pressure and layer volume are percentages (70 is     *)
(* 0.7).  baseVolume is in 1/1000.  Gain values are in 1e-7.  Filter      *)
(* cutoffs are in Hz.  noteToFrequency yields 1e-5 Hz; the frequencies a   *)
(* chain stores are in 1/100 Hz, values written to an oscillator's         *)
(* frequency parameter are in 1e-6 Hz.  Time is in ms.                     *)
(***************************************************************************)
EXTENDS Integers, Sequences, FiniteSets, TLC

\* ---------------------------------------------------------------- bounds
MaxChains == 2      \* sustained chains ever built in one behaviour
MaxTimers == 2      \* cleanup timers pending at the same time
MaxClock == 1       \* the clock advances freely up to this time (ms)
MaxVoices == 2      \* one-shot chains ever built in one behaviour
MaxPending == 2     \* playback requests waiting for context.resume() at the same time
MaxInits == 2       \* initialize() calls in one behaviour
MaxReloads == 2     \* hot reloads of the engine's module in one behaviour
MaxLoads == 2       \* loadSample() calls waiting on buffer.load() at the same time
MaxRefreshes == 1   \* refreshAudioRouting() calls in one behaviour
MaxRecorders == 1   \* recorders created in one behaviour
MaxFrames == 2      \* frames of a buffer handed to bufferToWAV
MaxRenderedFrames == 1   \* frames per channel of an offline rendering
MaxChannels == 2    \* channels of a buffer handed to bufferToWAV
MaxTimeouts == 2    \* initial health checks pending at the same time
MaxUptime == 5000   \* the clock of the repair worker advances up to this time (ms)

\* ---------------------------------------------------------------- inputs
LayerIds == {"piano"}
Notes == {"A4"}
DrumTypes == {"snare"}
Volumes == {60}
Velocities == {70}
Pressures == {0, 100}
ClockSteps == {1, 500}
MixerLayerIds == {"piano", "drums"}
MixerVolumes == {60, 100}
InstrumentVolumes == {50, 80}
DrumKit == {"kick", "snare", "hihat", "openhat", "crash", "ride", "tom1", "tom2"}
Octaves == {"0", "1", "2", "3", "4", "5", "6", "7", "8"}
SampleRates == {8000, 44100}
SampleValues == {-1500, -500, 1000}     \* in 1/1000
Urls == {"/samples/kick.wav", "/samples/empty.wav", "/samples/missing.wav"}

\* ------------------------------------------------------ program constants
CleanupDelay == 500
NoteGainScale == 4
DrumGainScale == 5
NoteFilterBase == 2000
DrumFilterBase == 1000
KickFrequency == 6000
TomFrequency == 20000
ModFilterBase == 200
ModFilterRange == 38
MinPressure == 10
MaxPressure == 100
Bpm == 120                        \* the transport's tempo, never changed
DrumCleanupTime == 1000
NoteCleanupTime == 2000
PianoCleanupTime == 6000
PadCleanupTime == 4000
SynthCleanupTime == 2000
SyntheticDrumGainScale == 500     \* x 0.5, in 1e-7 per 1e-4 of volume
SyntheticDrumGainMax == 8000000   \* 0.8, in 1e-7
SyntheticNoteGainScale == 300     \* x 0.3, in 1e-7 per percent x percent
InitialInstrumentVolume == 50     \* globalInstrumentVolume = 0.5, in percent
InitialMasterGain == 200          \* new Tone.Gain(2.0), in percent
InitialThreshold == -1            \* new Tone.Limiter(-0.1), in 1/10 dB
KickRelease == 300
HatRelease == 20
DrumRelease == 200
NoteRelease == 200
DefaultRelease == 800

NotANumber == -1    \* a value that is not a number (a function, an object)
Tolerance == 10     \* 1e-4 Hz: what rounding in the arithmetic may account for
PageLoadTime == 100000    \* Date.now() when the page loads, in ms
CheckInterval == 2000
MaxRetries == 5
RetryDelay == 1000
RepairDrumsVolume == 80
RepairPianoVolume == 60
OfflineChannels == 2
SampleRate == 44100  \* the rate of the offline renderings
A4Frequency == 44000000   \* 440, in 1e-5 Hz
Undefined == 0      \* the result of Map.get on a missing key; a missing baseFrequency

VARIABLES
    layers,          \* this.layers: layer id -> [volume, muted]
    activeSources,   \* this.activeSources: layer id -> list of nodes
    sustainedNotes,  \* this.sustainedNotes: note id -> chain (an index of chains)
    chains,          \* every sustained chain built so far, in the order built
    timers,          \* the pending setTimeout callbacks of stopSustainedNote
    now,             \* Date.now()
    call,            \* the operation that ran last
    context,         \* this.context.state
    pending,         \* the callbacks waiting on a context.resume() promise
    voices,          \* every one-shot chain built so far, in the order built
    instance,        \* HighPerformanceAudioEngine.instance (0: undefined)
    windowInstance,  \* window.__audioEngineInstance (0: undefined)
    engines,         \* the number of engines constructed so far
    got,             \* the engine the last getInstance() returned (0: none yet)
    reloads,         \* the number of hot reloads so far
    inits,           \* the initialize() calls waiting on Tone.start()
    tests,           \* every test chain of testAudioOutput built so far
    nodesFail,       \* whether constructing an audio node throws now
    globalInstrumentVolume,  \* this.globalInstrumentVolume, in percent
    masterGain,      \* this.masterGain: its gain value and its output connections
    limiter,         \* this.limiter: its threshold and its output connection
    testTimers,      \* the pending setTimeout callbacks of refreshAudioRouting
    bufferPool,      \* this.bufferPool: sample id -> buffer
    loads            \* the loadSample() calls waiting on buffer.load(): [id, url]

\* The state of the one-shot voices and of the audio context.
oneShotVars == <<context, pending, voices>>

\* The state of the singleton holder and of initialize().
bootVars == <<instance, windowInstance, engines, got, reloads, inits, tests>>

\* The state of the backend, the settings, the master bus and the sample pool.
engineVars == <<nodesFail, globalInstrumentVolume, masterGain, limiter, testTimers,
                bufferPool, loads>>

VARIABLES
    noteInput,       \* the string handed to noteToFrequency, as its characters
    noteFrequency,   \* what noteToFrequency returned for it
    wavBuffer,       \* the AudioBuffer handed to bufferToWAV
    wavBytes,        \* the bytes of the ArrayBuffer bufferToWAV returned
    worker,          \* window.__audioRepairWorker: config, isRunning, intervalId,
                     \* healthStatus, and the timers it has installed
    toneContext,     \* the context Tone builds new nodes on (Tone.setContext): "live",
                     \* the engine's context, or "offline", a WAVGenerator's
    rendering,       \* WAVGenerator: an offline render (context.render()) is awaited
    instrumentLayers,  \* App: the instrumentLayers state, layer id -> [volume, muted]
    managerLayers    \* InstrumentManager.layers: layer id -> [shared]; shared: the
                     \* entry is the object the engine's map holds for the id, so
                     \* that a write through either map is seen through the other
                     \* (the fields of an object only the manager holds are read
                     \* by nothing)

\* The state of the engine's playback objects, apart from the last call.
playbackVars == <<layers, activeSources, sustainedNotes, chains, timers, now,
                  oneShotVars, bootVars, engineVars>>

\* The argument and the result of the last conversion.
noteVars == <<noteInput, noteFrequency>>

\* The argument and the result of the last WAV encoding.
wavVars == <<wavBuffer, wavBytes, toneContext, rendering>>

\* The state outside the engine's playback objects.
\* The state of the application and of the InstrumentManager.
appVars == <<instrumentLayers, managerLayers>>

auxVars == <<noteVars, wavVars, worker, appVars>>

vars == <<layers, activeSources, sustainedNotes, chains, timers, now, call,
          oneShotVars, bootVars, engineVars, auxVars>>

Max(a, b) == IF a > b THEN a ELSE b
Min(a, b) == IF a < b THEN a ELSE b

\* The record of the operation that ran last: its name, its layer id or note
\* id argument, for a start operation the id it returned (as noteId), for
\* modulateSustainedNote the pressure, and for addLayer, updateLayerVolume and
\* updateGlobalInstrumentVolume the volume.  outcome tells how the operation ended
\* for its caller: it returned, it threw, or it left a rejected promise that
\* nothing handles.
Call(op, layerId, noteId) ==
    [op |-> op, layerId |-> layerId, noteId |-> noteId, pressure |-> 0,
     volume |-> 0, outcome |-> "returned"]

\* The operation threw out of the engine.
Threw(op, layerId) == [Call(op, layerId, "") EXCEPT !.outcome = "threw"]

\* A promise of the operation rejected and no handler was attached to it.
Unhandled(op, layerId) == [Call(op, layerId, "") EXCEPT !.outcome = "unhandledrejection"]

\* `${layerId}-${note}-${Date.now()}`
MakeId(layerId, name, t) == layerId \o "-" \o name \o "-" \o ToString(t)

\* A string is handled as the sequence of its characters; Text is the string.
RECURSIVE Text(_)
Text(chars) == IF chars = <<>> THEN "" ELSE Head(chars) \o Text(Tail(chars))

\* The strings noteToFrequency is asked about: every note of the 12-tone scale
\* in the octaves 0..8, and strings that denote no note.
NoteStrings ==
    {<<l, o>> : l \in {"C", "D", "E", "F", "G", "A", "B"}, o \in Octaves}
    \cup {<<l, "#", o>> : l \in {"C", "D", "F", "G", "A"}, o \in Octaves}
    \cup {<<"E", "#", "4">>, <<"B", "#", "3">>, <<"H", "4">>, <<"a", "4">>, <<"A">>,
          <<"4">>, <<>>, <<"A", "#">>, <<"#", "4">>, <<"A", "b", "4">>,
          <<"A", "-", "1">>, <<"A", "4", " ">>, <<"A", "#", "#", "4">>,
          <<"c", "o", "n", "s", "t", "r", "u", "c", "t", "o", "r">>,
          <<"t", "o", "S", "t", "r", "i", "n", "g">>,
          <<"v", "a", "l", "u", "e", "O", "f">>}

\* The characters of a string of NoteStrings.
Spell(note) == CHOOSE chars \in NoteStrings : Text(chars) = note

\* The members every object literal inherits from Object.prototype.
ObjectPrototype ==
    {"constructor", "toString", "valueOf", "toLocaleString", "hasOwnProperty",
     "isPrototypeOf", "propertyIsEnumerable", "__proto__"}

\* object[key] of an object literal: the own property, else the inherited
\* member (a function or an object, not a number), else undefined.
Get(object, key) ==
    IF key \in DOMAIN object THEN object[key]
    ELSE IF key \in ObjectPrototype THEN NotANumber
    ELSE Undefined

\* simpleNoteMap, in 1e-5 Hz
simpleNoteMap ==
    ("C4" :> 26163000) @@ ("C#4" :> 27718000) @@ ("D4" :> 29366000)
    @@ ("D#4" :> 31113000) @@ ("E4" :> 32963000) @@ ("F4" :> 34923000)
    @@ ("F#4" :> 36999000) @@ ("G4" :> 39200000) @@ ("G#4" :> 41530000)
    @@ ("A4" :> 44000000) @@ ("A#4" :> 46616000) @@ ("B4" :> 49388000)

\* noteOffsets: semitones above C
noteOffsets ==
    ("C" :> 0) @@ ("C#" :> 1) @@ ("D" :> 2) @@ ("D#" :> 3) @@ ("E" :> 4)
    @@ ("F" :> 5) @@ ("F#" :> 6) @@ ("G" :> 7) @@ ("G#" :> 8) @@ ("A" :> 9)
    @@ ("A#" :> 10) @@ ("B" :> 11)

DigitValue ==
    ("0" :> 0) @@ ("1" :> 1) @@ ("2" :> 2) @@ ("3" :> 3) @@ ("4" :> 4)
    @@ ("5" :> 5) @@ ("6" :> 6) @@ ("7" :> 7) @@ ("8" :> 8) @@ ("9" :> 9)

\* Where the digits start if chars matches /^([A-G]#?)(\d+)$/, else 0.
noteRegex(chars) ==
    LET n == Len(chars)
        first == IF n >= 2 /\ chars[2] = "#" THEN 3 ELSE 2
    IN IF /\ n >= 1
          /\ chars[1] \in {"A", "B", "C", "D", "E", "F", "G"}
          /\ first <= n
          /\ \A i \in first..n : chars[i] \in DOMAIN DigitValue
       THEN first
       ELSE 0

\* parseInt of a string of digits
RECURSIVE parseInt(_)
parseInt(digits) ==
    IF digits = <<>> THEN 0
    ELSE parseInt(SubSeq(digits, 1, Len(digits) - 1)) * 10 + DigitValue[digits[Len(digits)]]

\* C4_FREQ * Math.pow(2, r / 12) for r = 0..11 with C4_FREQ = 440 * 2^(-9/12),
\* in 1e-5 Hz
C4Octave ==
    <<26162557, 27718263, 29366477, 31112698, 32962756, 34922823,
      36999442, 39199544, 41530470, 44000000, 46616376, 49388330>>

\* C4_FREQ * Math.pow(2, semitonesFromC4 / 12), in 1e-5 Hz
EqualTemperament(semitonesFromC4) ==
    LET octaves == semitonesFromC4 \div 12
        r == semitonesFromC4 % 12
    IN IF octaves >= 0
       THEN C4Octave[r + 1] * 2^octaves
       ELSE C4Octave[r + 1] \div 2^(0 - octaves)

\* noteToFrequency(note), in 1e-5 Hz; NotANumber when the value returned is
\* not a number.
noteToFrequency(note) ==
    IF Get(simpleNoteMap, note) # Undefined THEN Get(simpleNoteMap, note)
    ELSE LET chars == Spell(note)
             first == noteRegex(chars)
             noteName == Text(SubSeq(chars, 1, first - 1))
             octave == parseInt(SubSeq(chars, first, Len(chars)))
         IN IF first = 0 THEN A4Frequency
            ELSE IF noteName \notin DOMAIN noteOffsets THEN A4Frequency
            ELSE EqualTemperament((octave - 4) * 12 + noteOffsets[noteName])

\* drumType.includes('hat'), over the drum types of the kit
IncludesHat(drumType) == drumType \in {"hihat", "openhat"}

\* const layer = this.layers.get(layerId); if (!layer || layer.muted) return ''
\* (variant that forgets the mute flag)
PlayableIgnoringMute(ls, layerId) == layerId \in DOMAIN ls

Playable(ls, layerId) == layerId \in DOMAIN ls /\ ~ls[layerId].muted

\* this.sustainedNotes.get(noteId)
\* (variant that falls back to some registered note)
LookupLatest(reg, noteId) ==
    IF noteId \in DOMAIN reg THEN reg[noteId]
    ELSE IF DOMAIN reg # {} THEN reg[CHOOSE k \in DOMAIN reg : TRUE]
    ELSE Undefined

Lookup(reg, noteId) == IF noteId \in DOMAIN reg THEN reg[noteId] ELSE Undefined

\* this.sustainedNotes.set(noteId, {...})
RegistrySet(reg, noteId, c) ==
    [k \in DOMAIN reg \cup {noteId} |-> IF k = noteId THEN c ELSE reg[k]]

\* this.sustainedNotes.delete(noteId)
\* (variant that forgets the delete)
RegistryKeep(reg, noteId) == reg

RegistryDelete(reg, noteId) == [k \in DOMAIN reg \ {noteId} |-> reg[k]]

\* if (!node.disposed) node.dispose(): the number of dispose() calls on a node
\* (variant without the disposed guard)
DisposeUnguarded(n) == n + 1

DisposeOnce(n) == IF n = 0 THEN 1 ELSE n

NoDisposals == [source |-> 0, envelope |-> 0, gain |-> 0, filter |-> 0]

\* The chain built by startSustainedNote: oscillator -> filter -> envelope ->
\* gain -> masterGain (order: the nodes from the source to the gain, as they
\* are connected), oscillator started, envelope attack triggered.
\* (variant that triggers attack and release, as playSyntheticNote does)
NoteChainOneShot(note, layerId, initialVelocity, layer) ==
    [source |-> "oscillator", name |-> note, layerId |-> layerId,
     baseVolume |-> layer.volume * NoteGainScale,
     baseFrequency |-> noteToFrequency(note) \div 1000,
     gain |-> initialVelocity * layer.volume * NoteGainScale * 100,
     filter |-> NoteFilterBase + initialVelocity * 20,
     frequency |-> noteToFrequency(note) * 10,
     attacks |-> 1, releases |-> 1,
     disposals |-> NoDisposals, toMaster |-> TRUE,
     order |-> <<"source", "filter", "envelope", "gain">>]

NoteChain(note, layerId, initialVelocity, layer) ==
    [source |-> "oscillator", name |-> note, layerId |-> layerId,
     baseVolume |-> layer.volume * NoteGainScale,
     baseFrequency |-> noteToFrequency(note) \div 1000,
     gain |-> initialVelocity * layer.volume * NoteGainScale * 100,
     filter |-> NoteFilterBase + initialVelocity * 20,
     frequency |-> noteToFrequency(note) * 10,
     attacks |-> 1, releases |-> 0,
     disposals |-> NoDisposals, toMaster |-> TRUE,
     order |-> <<"source", "filter", "envelope", "gain">>]

\* The source startSustainedDrum picks for a drum type, and its base frequency.
DrumSource(drumType) ==
    IF drumType = "kick" THEN "oscillator"
    ELSE IF drumType = "snare" THEN "noise"
    ELSE IF IncludesHat(drumType) THEN "noise"
    ELSE "oscillator"

DrumBaseFrequency(drumType) ==
    IF drumType = "kick" THEN KickFrequency
    ELSE IF drumType = "snare" THEN Undefined
    ELSE IF IncludesHat(drumType) THEN Undefined
    ELSE TomFrequency

\* The chain built by startSustainedDrum.
DrumChain(drumType, layerId, initialVelocity, layer) ==
    [source |-> DrumSource(drumType), name |-> drumType, layerId |-> layerId,
     baseVolume |-> layer.volume * DrumGainScale,
     baseFrequency |-> DrumBaseFrequency(drumType),
     gain |-> initialVelocity * layer.volume * DrumGainScale * 100,
     filter |-> DrumFilterBase + initialVelocity * 20,
     frequency |-> DrumBaseFrequency(drumType) * 10000,
     attacks |-> 1, releases |-> 0,
     disposals |-> NoDisposals, toMaster |-> TRUE,
     order |-> <<"source", "filter", "envelope", "gain">>]

\* The three parameter writes of modulateSustainedNote on one chain.
\* (variant that skips a chain whose release was triggered)
WriteParamsUnlessReleased(chain, pressure, layer) ==
    IF chain.releases > 0 THEN chain
    ELSE [chain EXCEPT
            !.gain = Max(MinPressure, Min(MaxPressure, pressure))
                        * chain.baseVolume * layer.volume,
            !.filter = ModFilterBase + pressure * ModFilterRange,
            !.frequency =
                IF chain.source = "oscillator" /\ chain.baseFrequency # Undefined
                THEN chain.baseFrequency * (10000 + (pressure - 50) * 2)
                ELSE @]

\* (variant whose pitch bend is ten times as wide)
WriteParamsWideBend(chain, pressure, layer) ==
    [chain EXCEPT
        !.gain = Max(MinPressure, Min(MaxPressure, pressure))
                    * chain.baseVolume * layer.volume,
        !.filter = ModFilterBase + pressure * ModFilterRange,
        !.frequency =
            IF chain.source = "oscillator" /\ chain.baseFrequency # Undefined
            THEN chain.baseFrequency * (10000 + (pressure - 50) * 20)
            ELSE @]

WriteParams(chain, pressure, layer) ==
    [chain EXCEPT
        !.gain = Max(MinPressure, Min(MaxPressure, pressure))
                    * chain.baseVolume * layer.volume,
        !.filter = ModFilterBase + pressure * ModFilterRange,
        !.frequency =
            IF chain.source = "oscillator" /\ chain.baseFrequency # Undefined
            THEN chain.baseFrequency * (10000 + (pressure - 50) * 2)
            ELSE @]

\* The node heap after modulateSustainedNote wrote to chain c.
\* (variant that builds a new chain for the new values)
ModulatedRebuild(cs, c, pressure, layer) ==
    Append(cs, WriteParams(cs[c], pressure, layer))

Modulated(cs, c, pressure, layer) ==
    [cs EXCEPT ![c] = WriteParams(@, pressure, layer)]

\* note.envelope.triggerRelease()
Released(chain) == [chain EXCEPT !.releases = @ + 1]

\* The four guarded dispose() calls of the cleanup callback; disposing the
\* gain node disconnects it from the master gain.
Disposed(chain) ==
    [chain EXCEPT
        !.disposals = [source |-> DisposeOnce(@.source),
                       envelope |-> DisposeOnce(@.envelope),
                       gain |-> DisposeOnce(@.gain),
                       filter |-> DisposeOnce(@.filter)],
        !.toMaster = FALSE]

IsDisposed(chain) ==
    /\ chain.disposals.source > 0
    /\ chain.disposals.envelope > 0
    /\ chain.disposals.gain > 0
    /\ chain.disposals.filter > 0

Layer(volume, muted) == [volume |-> volume, muted |-> muted]

\* The master bus the constructor builds: masterGain -> limiter -> destination.
\* disconnects counts the disconnect() calls on the node, recorders the
\* recorders connected to the master gain.
MasterGain ==
    [gain |-> InitialMasterGain, toLimiter |-> TRUE, recorders |-> 0, disconnects |-> 0]

Limiter ==
    [threshold |-> InitialThreshold, toDestination |-> TRUE, disconnects |-> 0]

TypeOK ==
    /\ DOMAIN layers \subseteq LayerIds \cup MixerLayerIds
    /\ \A l \in DOMAIN layers : layers[l].volume \in 0..100 /\ layers[l].muted \in BOOLEAN
    /\ DOMAIN activeSources \subseteq LayerIds \cup MixerLayerIds
    /\ \A k \in DOMAIN sustainedNotes : sustainedNotes[k] \in 1..Len(chains)
    /\ Len(chains) <= MaxChains
    /\ Len(timers) <= MaxTimers
    /\ now \in Nat
    /\ context \in {"suspended", "running"}
    /\ Len(pending) <= MaxPending
    /\ Len(voices) <= MaxVoices
    /\ instance \in 0..engines /\ windowInstance \in 0..engines /\ got \in 0..engines
    /\ reloads <= MaxReloads
    /\ inits \in 0..MaxInits
    /\ nodesFail \in BOOLEAN
    /\ globalInstrumentVolume \in 0..100
    /\ masterGain.toLimiter \in BOOLEAN /\ limiter.toDestination \in BOOLEAN
    /\ testTimers \in 0..MaxRefreshes
    /\ Len(loads) <= MaxLoads

\* No conversion has been asked for.
NoteIdle ==
    /\ noteInput = <<>>
    /\ noteFrequency = Undefined

\* An AudioBuffer: its channels hold one sample per frame, in 1/1000.
AudioBuffer(sampleRate, channelData) ==
    [length |-> IF channelData = <<>> THEN 0 ELSE Len(channelData[1]),
     numberOfChannels |-> Len(channelData),
     sampleRate |-> sampleRate,
     channelData |-> channelData]

\* Nothing has been encoded.
WavIdle ==
    /\ wavBuffer = AudioBuffer(SampleRate, <<>>)
    /\ wavBytes = <<>>
    /\ toneContext = "live"
    /\ rendering = FALSE

\* Date.now()
DateNow == PageLoadTime + now

\* The worker's polling timers: start() installs the interval timer of the
\* health check and a timeout for the initial check.
\* (variant without the isRunning test)
startUnguarded(w) ==
    LET id == CHOOSE i \in 1..(Cardinality(w.intervals) + 1) :
                    \A t \in w.intervals : t.id # i
    IN [w EXCEPT !.isRunning = TRUE,
                 !.intervalId = id,
                 !.intervals = @ \cup {[id |-> id, checkInterval |-> w.config["checkInterval"]]},
                 !.timeouts = @ + 1]

start(w) == IF w.isRunning THEN w ELSE startUnguarded(w)

stop(w) ==
    IF ~w.isRunning THEN w
    ELSE [w EXCEPT !.isRunning = FALSE,
                   !.intervalId = Undefined,
                   !.intervals = IF w.intervalId # Undefined
                                 THEN {t \in @ : t.id # w.intervalId}
                                 ELSE @]

setEnabled(w, enabled) ==
    LET w1 == [w EXCEPT !.config["enabled"] = enabled]
    IN IF enabled /\ ~w1.isRunning THEN start(w1)
       ELSE IF ~enabled /\ w1.isRunning THEN stop(w1)
       ELSE w1

\* The worker getInstance() constructs: the constructor starts it, as the
\* configuration is enabled.
AudioRepairWorker ==
    start([config |-> ("enabled" :> TRUE) @@ ("checkInterval" :> CheckInterval)
                      @@ ("maxRetries" :> MaxRetries) @@ ("retryDelay" :> RetryDelay),
           isRunning |-> FALSE,
           intervalId |-> Undefined,
           healthStatus |-> [timestamp |-> PageLoadTime,
                             layersInitialized |-> FALSE,
                             audioContextRunning |-> FALSE,
                             engineAvailable |-> FALSE,
                             repairAttempts |-> 0,
                             lastRepairAttempt |-> Undefined],
           intervals |-> {},
           timeouts |-> 0])

WorkerInit == worker = AudioRepairWorker

\* The application when the page has mounted: the two layers of useState,
\* which no engine and no InstrumentManager has been given yet.
AppIdle ==
    /\ instrumentLayers = ("drums" :> Layer(RepairDrumsVolume, FALSE))
                          @@ ("piano" :> Layer(RepairPianoVolume, FALSE))
    /\ managerLayers = <<>>

\* The state outside the engine's playback objects when the page has mounted.
AuxInit == NoteIdle /\ WavIdle /\ WorkerInit /\ AppIdle

\* ------------------------------------------------------------------ Init
\* The engine after the first getInstance(): no layer, no sustained note, no
\* timer, no voice.  The engine is constructed when the page mounts, before
\* any user gesture, so the browser leaves its audio context suspended.
Init ==
    /\ layers = <<>>
    /\ activeSources = <<>>
    /\ sustainedNotes = <<>>
    /\ chains = <<>>
    /\ timers = <<>>
    /\ now = 0
    /\ call = Call("constructor", "", "")
    /\ context = "suspended"
    /\ pending = <<>>
    /\ voices = <<>>
    /\ instance = 1
    /\ windowInstance = 1
    /\ engines = 1
    /\ got = 1
    /\ reloads = 0
    /\ inits = 0
    /\ tests = <<>>
    /\ nodesFail = FALSE
    /\ globalInstrumentVolume = InitialInstrumentVolume
    /\ masterGain = MasterGain
    /\ limiter = Limiter
    /\ testTimers = 0
    /\ bufferPool = <<>>
    /\ loads = <<>>
    /\ AuxInit

\* --------------------------------------------------------------- actions
\* this.layers.set(layer.id, layer)
\* (variant that keeps the entry an id already has)
LayersSetIfAbsent(ls, layerId, layer) ==
    [k \in DOMAIN ls \cup {layerId} |-> IF k \in DOMAIN ls THEN ls[k] ELSE layer]

LayersSet(ls, layerId, layer) ==
    [k \in DOMAIN ls \cup {layerId} |-> IF k = layerId THEN layer ELSE ls[k]]

hasLayer(ls, layerId) == layerId \in DOMAIN ls

\* The InstrumentManager's map after the engine's map has lost the objects
\* it held under ids: the manager's entries are those objects still, which the
\* engine no longer holds.
Unshared(ms, ids) ==
    [k \in DOMAIN ms |-> IF k \in ids THEN [shared |-> FALSE] ELSE ms[k]]

addLayer(layerId, volume, muted) ==
    /\ layers' = LayersSet(layers, layerId, Layer(volume, muted))
    /\ activeSources' = [k \in DOMAIN activeSources \cup {layerId} |->
                    IF k = layerId THEN <<>> ELSE activeSources[k]]
    /\ managerLayers' = Unshared(managerLayers, {layerId})
    /\ call' = [Call("addLayer", layerId, "") EXCEPT !.volume = volume]
    /\ UNCHANGED <<sustainedNotes, chains, timers, now, oneShotVars, bootVars, engineVars,
                   noteVars, wavVars, worker, instrumentLayers>>

updateLayerVolume(layerId, volume) ==
    /\ layers' = IF layerId \in DOMAIN layers
                 THEN [layers EXCEPT ![layerId].volume = volume]
                 ELSE layers
    /\ call' = [Call("updateLayerVolume", layerId, "") EXCEPT !.volume = volume]
    /\ UNCHANGED <<activeSources, sustainedNotes, chains, timers, now, oneShotVars, bootVars, engineVars, auxVars>>

toggleLayerMute(layerId) ==
    /\ layers' = IF layerId \in DOMAIN layers
                 THEN [layers EXCEPT ![layerId].muted = ~@]
                 ELSE layers
    /\ call' = Call("toggleLayerMute", layerId, "")
    /\ UNCHANGED <<activeSources, sustainedNotes, chains, timers, now, oneShotVars, bootVars, engineVars, auxVars>>

\* clearLayer(layerId): disposes the nodes listed for the layer and empties
\* the list; the layer map is not touched.
clearLayer(layerId) ==
    /\ activeSources' = IF layerId \in DOMAIN activeSources
                        THEN [activeSources EXCEPT ![layerId] = <<>>]
                        ELSE activeSources
    /\ call' = Call("clearLayer", layerId, "")
    /\ UNCHANGED <<layers, sustainedNotes, chains, timers, now, oneShotVars, bootVars, engineVars, auxVars>>

\* App.removeLayer(layerId) once the audio is ready: the state keeps the
\* layers remaining (not holding layerId); engine.clearLayer(layerId) and
\* instrumentManager.removeInstrumentLayer(layerId); then engine.addLayer and
\* instrumentManager.addInstrumentLayer for every remaining layer the engine
\* does not have.
removeLayer(layerId, remaining) ==
    /\ layers' = [k \in DOMAIN layers \cup DOMAIN remaining |->
                    IF hasLayer(layers, k) THEN layers[k] ELSE remaining[k]]
    /\ activeSources' = [k \in DOMAIN activeSources \cup DOMAIN remaining |->
                    IF k \in DOMAIN remaining /\ ~hasLayer(layers, k) THEN <<>>
                    ELSE IF k = layerId THEN <<>>
                    ELSE activeSources[k]]
    /\ instrumentLayers' = remaining
    /\ managerLayers' =
            [k \in (DOMAIN managerLayers \ {layerId})
                        \cup {r \in DOMAIN remaining : ~hasLayer(layers, r)} |->
                IF k \in DOMAIN remaining /\ ~hasLayer(layers, k)
                THEN [shared |-> TRUE]
                ELSE managerLayers[k]]
    /\ call' = Call("removeLayer", layerId, "")
    /\ UNCHANGED <<sustainedNotes, chains, timers, now, oneShotVars, bootVars, engineVars,
                   noteVars, wavVars, worker>>

updateGlobalInstrumentVolume(volume) ==
    /\ globalInstrumentVolume' = volume
    /\ call' = [Call("updateGlobalInstrumentVolume", "", "") EXCEPT !.volume = volume]
    /\ UNCHANGED <<layers, activeSources, sustainedNotes, chains, timers, now,
                   oneShotVars, bootVars, nodesFail, masterGain, limiter, testTimers,
                   bufferPool, loads, auxVars>>

startSustainedNote(note, layerId, initialVelocity) ==
    IF ~Playable(layers, layerId)
    THEN /\ call' = Call("startSustainedNote", layerId, "")
         /\ UNCHANGED <<layers, activeSources, sustainedNotes, chains, timers, now, oneShotVars, bootVars, engineVars, auxVars>>
    ELSE IF nodesFail
    THEN /\ call' = Threw("startSustainedNote", layerId)
         /\ UNCHANGED <<layers, activeSources, sustainedNotes, chains, timers, now, oneShotVars, bootVars, engineVars, auxVars>>
    ELSE /\ Len(chains) < MaxChains
         /\ LET noteId == MakeId(layerId, note, now)
            IN /\ chains' = Append(chains,
                      NoteChain(note, layerId, initialVelocity, layers[layerId]))
               /\ sustainedNotes' = RegistrySet(sustainedNotes, noteId, Len(chains) + 1)
               /\ call' = Call("startSustainedNote", layerId, noteId)
         /\ UNCHANGED <<layers, activeSources, timers, now, oneShotVars, bootVars, engineVars, auxVars>>

startSustainedDrum(drumType, layerId, initialVelocity) ==
    IF ~Playable(layers, layerId)
    THEN /\ call' = Call("startSustainedDrum", layerId, "")
         /\ UNCHANGED <<layers, activeSources, sustainedNotes, chains, timers, now, oneShotVars, bootVars, engineVars, auxVars>>
    ELSE IF nodesFail
    THEN /\ call' = Threw("startSustainedDrum", layerId)
         /\ UNCHANGED <<layers, activeSources, sustainedNotes, chains, timers, now, oneShotVars, bootVars, engineVars, auxVars>>
    ELSE /\ Len(chains) < MaxChains
         /\ LET drumId == MakeId(layerId, drumType, now)
            IN /\ chains' = Append(chains,
                      DrumChain(drumType, layerId, initialVelocity, layers[layerId]))
               /\ sustainedNotes' = RegistrySet(sustainedNotes, drumId, Len(chains) + 1)
               /\ call' = Call("startSustainedDrum", layerId, drumId)
         /\ UNCHANGED <<layers, activeSources, timers, now, oneShotVars, bootVars, engineVars, auxVars>>

modulateSustainedNote(noteId, pressure) ==
    LET note == Lookup(sustainedNotes, noteId)
    IN /\ call' = [Call("modulateSustainedNote", "", noteId) EXCEPT !.pressure = pressure]
       /\ chains' =
            IF note = Undefined THEN chains
            ELSE IF chains[note].layerId \notin DOMAIN layers THEN chains
            ELSE Modulated(chains, note, pressure, layers[chains[note].layerId])
       /\ UNCHANGED <<layers, activeSources, sustainedNotes, timers, now, oneShotVars, bootVars, engineVars, auxVars>>

stopSustainedNote(noteId) ==
    LET note == Lookup(sustainedNotes, noteId)
    IN /\ call' = Call("stopSustainedNote", "", noteId)
       /\ IF note = Undefined
          THEN UNCHANGED <<chains, timers>>
          ELSE /\ Len(timers) < MaxTimers
               /\ chains' = [chains EXCEPT ![note] = Released(@)]
               /\ timers' = Append(timers,
                      [noteId |-> noteId, note |-> note, due |-> now + CleanupDelay])
       /\ UNCHANGED <<layers, activeSources, sustainedNotes, now, oneShotVars, bootVars, engineVars, auxVars>>

\* Timer i may run: it is due, and no timer that is due earlier, or equally
\* early and installed before it, is still pending.
Runnable(i) ==
    /\ timers[i].due <= now
    /\ \A j \in 1..Len(timers) :
          \/ timers[j].due > timers[i].due
          \/ (timers[j].due = timers[i].due /\ j >= i)

RemoveAt(s, i) == SubSeq(s, 1, i - 1) \o SubSeq(s, i + 1, Len(s))

\* The setTimeout callback of stopSustainedNote.
cleanup(i) ==
    /\ i \in 1..Len(timers)
    /\ Runnable(i)
    /\ chains' = [chains EXCEPT ![timers[i].note] = Disposed(@)]
    /\ sustainedNotes' = RegistryDelete(sustainedNotes, timers[i].noteId)
    /\ timers' = RemoveAt(timers, i)
    /\ call' = Call("cleanup", "", timers[i].noteId)
    /\ UNCHANGED <<layers, activeSources, now, oneShotVars, bootVars, engineVars, auxVars>>

\* Time passes.  Beyond MaxClock the clock only advances towards a pending
\* timer.
advanceClock(d) ==
    /\ \/ now + d <= MaxClock
       \/ (d > 1 /\ \E i \in 1..Len(timers) : timers[i].due > now)
    /\ now' = now + d
    /\ call' = Call("advanceClock", "", "")
    /\ UNCHANGED <<layers, activeSources, sustainedNotes, chains, timers, oneShotVars, bootVars, engineVars, auxVars>>

\* The note ids a caller passes: the ids registered or in release now, and the
\* ids of the notes and drums started at time 0 (which, when nothing was
\* started then or the note is disposed by now, are unknown to the registry).
NoteIds ==
    {MakeId(l, n, 0) : l \in LayerIds, n \in Notes \cup DrumTypes}
        \cup DOMAIN sustainedNotes
        \cup {timers[i].noteId : i \in 1..Len(timers)}

Timers == \E i \in 1..Len(timers) : cleanup(i)

Clock == \E d \in ClockSteps : advanceClock(d)

Next ==
    \/ \E l \in LayerIds, v \in Volumes, m \in BOOLEAN : addLayer(l, v, m)
    \/ \E l \in LayerIds, v \in Volumes : updateLayerVolume(l, v)
    \/ \E l \in LayerIds : toggleLayerMute(l)
    \/ \E n \in Notes, l \in LayerIds, v \in Velocities : startSustainedNote(n, l, v)
    \/ \E t \in DrumTypes, l \in LayerIds, v \in Velocities : startSustainedDrum(t, l, v)
    \/ \E id \in NoteIds, p \in Pressures : modulateSustainedNote(id, p)
    \/ \E id \in NoteIds : stopSustainedNote(id)
    \/ Timers
    \/ Clock

Spec == Init /\ [][Next]_vars

\* The sustained-note protocol on a playable layer, for the liveness claims:
\* the browser runs every timer that is due, and time does not stop while a
\* timer is pending.
LiveNext ==
    \/ \E l \in LayerIds, v \in Volumes : addLayer(l, v, FALSE)
    \/ \E n \in Notes, l \in LayerIds, v \in Velocities : startSustainedNote(n, l, v)
    \/ \E t \in DrumTypes, l \in LayerIds, v \in Velocities : startSustainedDrum(t, l, v)
    \/ \E id \in NoteIds : modulateSustainedNote(id, 100)
    \/ \E id \in NoteIds : stopSustainedNote(id)
    \/ Timers
    \/ Clock

LiveSpec == Init /\ [][LiveNext]_vars /\ WF_vars(Timers) /\ WF_vars(Clock)

\* ------------------------------------------------------ claim vocabulary
StartOps == {"startSustainedNote", "startSustainedDrum"}

ChainIds == 1..Len(chains)

\* Some registry entry refers to chain c.
Registered(c) == \E k \in DOMAIN sustainedNotes : sustainedNotes[k] = c

\* A cleanup timer is pending for noteId.
HasTimer(noteId) == \E i \in 1..Len(timers) : timers[i].noteId = noteId

\* noteId is registered and its chain's envelope release has been triggered.
Releasing(noteId) ==
    /\ noteId \in DOMAIN sustainedNotes
    /\ chains[sustainedNotes[noteId]].releases > 0

\* C1: every successful startSustainedNote / startSustainedDrum returns an id
\* that is not already a key of the registry, also when the same note is
\* started twice on the same layer with no clock advance in between.
C1_FreshId ==
    [][(call'.op \in StartOps /\ call'.noteId # "")
          => call'.noteId \notin DOMAIN sustainedNotes]_vars

\* C3: in every reachable state, every chain that no registry entry refers to
\* has its source, envelope, gain and filter nodes disposed.
C3_UnregisteredIsDisposed ==
    \A c \in ChainIds : ~Registered(c) => IsDisposed(chains[c])

\* C5 (as claimed): a stopSustainedNote(id) on an id that was already stopped,
\* whether its cleanup timer is still pending or has fired and removed the id,
\* changes nothing: no release is triggered, no second cleanup is scheduled.
C5_SecondStopIsNoOp ==
    [][(call'.op = "stopSustainedNote"
          /\ (HasTimer(call'.noteId) \/ call'.noteId \notin DOMAIN sustainedNotes))
          => UNCHANGED <<chains, timers, sustainedNotes>>]_vars

\* C5 (amended): a stopSustainedNote(id) on an id that is no longer registered
\* (its cleanup timer has fired) is a no-op; a stop of a registered id, a
\* second one included, triggers the release of its chain once more and
\* schedules one more cleanup, due 500 ms later, and leaves the registry
\* alone; and no node is ever disposed more than once.
C5_StopStep ==
    call'.op = "stopSustainedNote" =>
        IF call'.noteId \in DOMAIN sustainedNotes
        THEN LET c == sustainedNotes[call'.noteId]
             IN /\ chains' = [chains EXCEPT ![c].releases = @ + 1]
                /\ timers' = Append(timers, [noteId |-> call'.noteId, note |-> c,
                                             due |-> now + 500])
                /\ UNCHANGED sustainedNotes
        ELSE UNCHANGED <<chains, timers, sustainedNotes>>

C5_DisposedAtMostOnce ==
    \A c \in ChainIds :
        /\ chains[c].disposals.source <= 1
        /\ chains[c].disposals.envelope <= 1
        /\ chains[c].disposals.gain <= 1
        /\ chains[c].disposals.filter <= 1

\* C5 (amended), both parts: every step obeys C5_StopStep and every state
\* C5_DisposedAtMostOnce.
C5_DoubleStopSafe == [][C5_StopStep]_vars /\ []C5_DisposedAtMostOnce

\* C5 witness: a chain was stopped twice, both cleanups have run, and the
\* chain is disposed.
C5_Witness ==
    /\ call.op = "cleanup"
    /\ timers = <<>>
    /\ \E c \in ChainIds : chains[c].releases = 2 /\ IsDisposed(chains[c])

\* C6: modulateSustainedNote on an id the registry does not hold (never
\* started, or already disposed) writes no parameter of any node and leaves the
\* registry, the layer map and the timers unchanged.
C6_ModulateUnknownIsNoOp ==
    [][(call'.op = "modulateSustainedNote" /\ call'.noteId \notin DOMAIN sustainedNotes)
          => UNCHANGED <<chains, sustainedNotes, layers, activeSources, timers>>]_vars

\* C6 witness: modulate ran on an unregistered id while another note is
\* registered and a note has already been disposed.
C6_Witness ==
    /\ call.op = "modulateSustainedNote"
    /\ call.noteId \notin DOMAIN sustainedNotes
    /\ sustainedNotes # <<>>
    /\ \E c \in ChainIds : IsDisposed(chains[c])

\* C7 (as claimed): modulateSustainedNote on an id that was stopped and whose
\* cleanup has not run yet writes no parameter and does not mutate the registry.
C7_ModulateReleasingIsNoOp ==
    [][(call'.op = "modulateSustainedNote" /\ Releasing(call'.noteId))
          => UNCHANGED <<chains, sustainedNotes>>]_vars

\* C7 (amended): modulateSustainedNote on an id in the Releasing state does not
\* mutate the registry, the layer map or the timers and builds no node, but it
\* still overwrites the filter cutoff (200 + 3800 x pressure Hz) and the gain
\* of the releasing chain.
C7_ModulateReleasingWrites ==
    [][(call'.op = "modulateSustainedNote" /\ Releasing(call'.noteId))
          => LET c == sustainedNotes[call'.noteId]
                 p == call'.pressure
                 clamped == IF p < 10 THEN 10 ELSE IF p > 100 THEN 100 ELSE p
             IN /\ UNCHANGED <<sustainedNotes, layers, activeSources, timers>>
                /\ Len(chains') = Len(chains)
                /\ chains'[c].filter = 200 + 38 * p
                /\ chains'[c].gain = clamped * chains[c].baseVolume
                                        * layers[chains[c].layerId].volume]_vars

\* C7 witness: a modulate call has just written to a released, still
\* registered chain.
C7_Witness ==
    /\ call.op = "modulateSustainedNote"
    /\ Releasing(call.noteId)
    /\ HasTimer(call.noteId)
    /\ chains[sustainedNotes[call.noteId]].filter = 200 + 38 * call.pressure

\* C8: startSustainedNote / startSustainedDrum on a layer id that is unknown or
\* muted returns the empty id, builds no node, connects nothing to the master
\* gain and leaves the registry unchanged.
C8_UnplayableStartIsNoOp ==
    [][(/\ call'.op \in StartOps
        /\ \/ call'.layerId \notin DOMAIN layers
           \/ layers[call'.layerId].muted)
          => /\ call'.noteId = ""
             /\ UNCHANGED <<chains, sustainedNotes, timers, layers>>]_vars

\* C8 witness: a start on a muted layer has returned the empty id.
C8_Witness ==
    /\ call.op \in StartOps
    /\ call.noteId = ""
    /\ call.layerId \in DOMAIN layers
    /\ layers[call.layerId].muted

\* C9: a sustained chain is built with its attack triggered once and no
\* release; the release of a chain is triggered only by a stopSustainedNote on
\* an id registered for that chain, never by start, modulate or a timer.
C9_ReleaseStep ==
    \A c \in 1..Len(chains') :
        IF c \in ChainIds
        THEN chains'[c].releases # chains[c].releases =>
                /\ call'.op = "stopSustainedNote"
                /\ call'.noteId \in DOMAIN sustainedNotes
                /\ sustainedNotes[call'.noteId] = c
        ELSE chains'[c].releases = 0 /\ chains'[c].attacks = 1

\* C9: every step obeys C9_ReleaseStep.
C9_ReleaseOnlyByStop == [][C9_ReleaseStep]_vars

\* C9 witness: a registered chain still holds its sustain (no release) after
\* a modulate call and after 500 ms have passed.
C9_Witness ==
    /\ call.op = "modulateSustainedNote"
    /\ call.noteId \in DOMAIN sustainedNotes
    /\ chains[sustainedNotes[call.noteId]].releases = 0
    /\ chains[sustainedNotes[call.noteId]].attacks = 1
    /\ now >= 500

\* C10: modulateSustainedNote on a registered id leaves the registry, the
\* layer map and the pending timers unchanged, builds and disposes no node,
\* and changes nothing but the gain, filter and frequency values of the chain
\* registered under that id.
C10_ModulateStep ==
    (call'.op = "modulateSustainedNote" /\ call'.noteId \in DOMAIN sustainedNotes) =>
        /\ UNCHANGED <<sustainedNotes, layers, activeSources, timers>>
        /\ Len(chains') = Len(chains)
        /\ \A c \in ChainIds :
              IF c = sustainedNotes[call'.noteId]
              THEN chains'[c] = [chains[c] EXCEPT !.gain = chains'[c].gain,
                                                  !.filter = chains'[c].filter,
                                                  !.frequency = chains'[c].frequency]
              ELSE chains'[c] = chains[c]

\* C10: every step obeys C10_ModulateStep.
C10_ModulateOverwrites == [][C10_ModulateStep]_vars

\* C10 witness: with every chain the bounds allow built, a modulate call has
\* overwritten the parameters of a registered chain with those of pressure 1.
C10_Witness ==
    /\ call.op = "modulateSustainedNote"
    /\ call.pressure = 100
    /\ call.noteId \in DOMAIN sustainedNotes
    /\ chains[sustainedNotes[call.noteId]].filter = 4000
    /\ Len(chains) = MaxChains

\* The times a start can run at within the bounds, and the ids it can return:
\* past MaxClock the clock moves only by the cleanup delay, once per batch of
\* stops, and the last chain is started after the stops of the others.
StartTimes ==
    {a + CleanupDelay * b : a \in 0..MaxClock, b \in 0..(MaxTimers * (MaxChains - 1))}

AllNoteIds ==
    {MakeId(l, n, t) : l \in LayerIds, n \in Notes \cup DrumTypes, t \in StartTimes}

\* C2: once stopSustainedNote(id) has run for a registered id (its cleanup
\* timer is pending), the registry eventually no longer contains id; and when
\* from some point on every registered id has been stopped, the registry is
\* eventually empty.
C2_StoppedIsRemoved ==
    /\ [](DOMAIN sustainedNotes \subseteq AllNoteIds)
    /\ \A id \in AllNoteIds :
          (id \in DOMAIN sustainedNotes /\ HasTimer(id)) ~> (id \notin DOMAIN sustainedNotes)
    /\ <>[](\A id \in DOMAIN sustainedNotes : HasTimer(id)) => <>(sustainedNotes = <<>>)

\* C2 witness: the cleanup of a stopped note has run 500 ms after the stop
\* and the registry is empty again.
C2_Witness ==
    /\ call.op = "cleanup"
    /\ now >= CleanupDelay
    /\ sustainedNotes = <<>>
    /\ \E c \in ChainIds : IsDisposed(chains[c])

\* C4: the lifetime of every sustained chain is bounded whether or not
\* stopSustainedNote is called for it: in every reachable state, every chain
\* that is not yet disposed has a pending timer (a watchdog) whose callback
\* disposes it.
C4_WatchdogArmed ==
    \A c \in ChainIds :
        ~IsDisposed(chains[c]) => \E i \in 1..Len(timers) : timers[i].note = c

\* ------------------------------------------- pressure modulation, in numbers
\* The sustained-note protocol over a wider range of sources, layer volumes
\* and pressures, with the clock standing still.
ModNotes == {"A4"}
ModDrumTypes == {"kick", "snare", "hihat", "tom1"}
ModVolumes == {60, 100}
ModPressures == {0, 50, 100}

ModNext ==
    \/ \E l \in LayerIds, v \in ModVolumes : addLayer(l, v, FALSE)
    \/ \E l \in LayerIds, v \in ModVolumes : updateLayerVolume(l, v)
    \/ \E n \in ModNotes, l \in LayerIds, v \in Velocities : startSustainedNote(n, l, v)
    \/ \E t \in ModDrumTypes, l \in LayerIds, v \in Velocities : startSustainedDrum(t, l, v)
    \/ \E id \in DOMAIN sustainedNotes, p \in ModPressures : modulateSustainedNote(id, p)
    \/ \E id \in DOMAIN sustainedNotes : stopSustainedNote(id)

ModSpec == Init /\ [][ModNext]_vars

\* A modulateSustainedNote call has just run on a registered id whose layer
\* exists.
ModulateRan ==
    /\ call'.op = "modulateSustainedNote"
    /\ call'.noteId \in DOMAIN sustainedNotes
    /\ chains[sustainedNotes[call'.noteId]].layerId \in DOMAIN layers

\* C11: for a registered id whose layer still exists, modulateSustainedNote(id,
\* p) writes gain = clamp(p, 0, 1) x baseVolume x layer.volume, with the
\* layer's current volume; in particular p = 0 writes gain 0.
C11_GainIsClampedPressure ==
    [][ModulateRan =>
          LET c == sustainedNotes[call'.noteId]
              p == call'.pressure
              clamped == IF p < 0 THEN 0 ELSE IF p > 100 THEN 100 ELSE p
          IN chains'[c].gain
                = clamped * chains[c].baseVolume * layers[chains[c].layerId].volume]_vars

\* C12: for every pressure in [0,1], the frequency modulateSustainedNote
\* writes to a pitched source (an oscillator with a base frequency) is within
\* two percent of the base frequency, and the frequency of a noise source
\* (snare, hats) is not written.
C12_BendStep ==
    ModulateRan =>
        LET c == sustainedNotes[call'.noteId]
            base == chains[c].baseFrequency * 10000
            written == chains'[c].frequency
        IN IF chains[c].source = "oscillator"
           THEN /\ written - base <= base \div 50
                /\ base - written <= base \div 50
           ELSE chains'[c].frequency = chains[c].frequency

\* C12: every step obeys C12_BendStep.
C12_BendIsNarrow == [][C12_BendStep]_vars

\* C12 witness: full pressure has bent the pitch of a drum oscillator upwards
\* while a noise source is registered next to it.
C12_Witness ==
    /\ call.op = "modulateSustainedNote"
    /\ call.pressure = 100
    /\ call.noteId \in DOMAIN sustainedNotes
    /\ LET c == chains[sustainedNotes[call.noteId]]
       IN /\ c.source = "oscillator"
          /\ c.baseFrequency = KickFrequency
          /\ c.frequency > c.baseFrequency * 10000
    /\ \E k \in DOMAIN sustainedNotes : chains[sustainedNotes[k]].source = "noise"

\* ------------------------------------------------------- one-shot voices
\* A one-shot voice is a record: the operation that built it (op), the drum
\* type, note or instrument type it plays (name), the kind of its source
\* (oscillator or noise), the nodes it allocated, the
\* nodes it started, the nodes disposed so far, whether its gain node is
\* connected to the master gain (toMaster), its gain value (1e-7), the
\* frequency of its oscillator (1/100 Hz), the time from the attack to the
\* release (duration, ms), the envelope's release time (release, ms), the delay
\* of its cleanup timer (cleanupTime, ms), whether that timer has fired, and
\* its nodes from the source to the gain as they are connected (order).

\* Tone.Time('<n>n').toSeconds(), in ms: the n-th part of a 4/4 measure.
NotationMs(n) == (240000 \div Bpm) \div n

\* synthParams of a call that passes none, and the parameters
\* playAdvancedSynthInternal uses in its place.
NoSynthParams == [release |-> 0, filter |-> FALSE, modulation |-> "undefined"]

DefaultParams == [release |-> DefaultRelease, filter |-> FALSE, modulation |-> "none"]

\* The instrument catalog: every InstrumentConfig with synthParams, reduced to
\* its type, its envelope's release time (ms), whether it has a filter and the
\* type of its modulation.
Catalog ==
       ("percussion" :> <<"percussion", 200, FALSE, "none">>)
    @@ ("sub-bass" :> <<"bass", 500, TRUE, "none">>)
    @@ ("acid-bass" :> <<"bass", 400, TRUE, "filter">>)
    @@ ("bass-808" :> <<"bass", 800, TRUE, "none">>)
    @@ ("square-lead" :> <<"lead", 300, TRUE, "none">>)
    @@ ("saw-lead" :> <<"lead", 400, TRUE, "vibrato">>)
    @@ ("pluck-lead" :> <<"lead", 100, TRUE, "none">>)
    @@ ("warm-pad" :> <<"pad", 2000, TRUE, "none">>)
    @@ ("string-pad" :> <<"pad", 1500, TRUE, "vibrato">>)
    @@ ("marimba" :> <<"percussion", 1000, TRUE, "none">>)
    @@ ("xylophone" :> <<"percussion", 500, TRUE, "none">>)
    @@ ("steel-drums" :> <<"percussion", 1200, TRUE, "none">>)
    @@ ("violin-synth" :> <<"strings", 500, TRUE, "vibrato">>)
    @@ ("guitar-synth" :> <<"strings", 800, TRUE, "none">>)
    @@ ("flute-synth" :> <<"winds", 300, TRUE, "vibrato">>)
    @@ ("sax-synth" :> <<"winds", 400, TRUE, "vibrato">>)
    @@ ("hammond-organ" :> <<"synth", 300, TRUE, "tremolo">>)
    @@ ("church-organ" :> <<"synth", 1000, TRUE, "none">>)
    @@ ("trumpet-synth" :> <<"winds", 300, TRUE, "vibrato">>)
    @@ ("trombone-synth" :> <<"winds", 400, TRUE, "vibrato">>)
    @@ ("french-horn" :> <<"winds", 500, TRUE, "none">>)
    @@ ("choir-pad" :> <<"pad", 2000, TRUE, "vibrato">>)
    @@ ("vox-lead" :> <<"lead", 400, TRUE, "vibrato">>)
    @@ ("fm-bell" :> <<"percussion", 3000, TRUE, "none">>)
    @@ ("granular-pad" :> <<"pad", 3000, TRUE, "filter">>)
    @@ ("additive-synth" :> <<"synth", 500, TRUE, "none">>)
    @@ ("sitar-synth" :> <<"strings", 1500, TRUE, "vibrato">>)
    @@ ("shamisen" :> <<"strings", 1000, TRUE, "none">>)
    @@ ("tabla" :> <<"percussion", 400, TRUE, "none">>)
    @@ ("dubstep-wobble" :> <<"bass", 300, TRUE, "filter">>)
    @@ ("chiptune-lead" :> <<"lead", 200, TRUE, "none">>)
    @@ ("ambient-texture" :> <<"pad", 4000, TRUE, "filter">>)
    @@ ("slap-bass" :> <<"bass", 300, TRUE, "none">>)
    @@ ("moog-bass" :> <<"bass", 400, TRUE, "filter">>)
    @@ ("electric-piano" :> <<"synth", 1000, TRUE, "none">>)
    @@ ("laser-zap" :> <<"synth", 100, TRUE, "none">>)

\* config.type and config.synthParams of a catalog entry.
TypeOf(id) == Catalog[id][1]

ParamsOf(id) ==
    [release |-> Catalog[id][2], filter |-> Catalog[id][3], modulation |-> Catalog[id][4]]

\* The synthParams of AdvancedSynth's playNote, which plays every key as 'piano'.
PianoParams == [release |-> 1200, filter |-> TRUE, modulation |-> "none"]

\* createDrumSound(type): the kind of source it returns.
createDrumSound(type) ==
    IF type = "kick" THEN "oscillator"
    ELSE IF type \in {"snare", "hihat", "openhat", "crash"} THEN "noise"
    ELSE "oscillator"

\* drumType.includes('hat') || drumType === 'snare'
FilteredDrum(drumType) == IncludesHat(drumType) \/ drumType = "snare"

\* playSyntheticDrum(drumType, volume), volume in 1e-4: the chain it builds.
playSyntheticDrum(drumType, volume) ==
    [op |-> "playSyntheticDrum", name |-> drumType,
     source |-> createDrumSound(drumType),
     allocated |-> {"source", "envelope", "gain"}
                      \cup (IF FilteredDrum(drumType) THEN {"filter"} ELSE {}),
     started |-> {"source"},
     disposed |-> {},
     toMaster |-> TRUE,
     gain |-> Min(volume * SyntheticDrumGainScale, SyntheticDrumGainMax),
     frequency |-> Undefined,
     duration |-> NotationMs(8),
     release |-> IF drumType = "kick" THEN KickRelease
                 ELSE IF IncludesHat(drumType) THEN HatRelease ELSE DrumRelease,
     cleanupTime |-> DrumCleanupTime,
     fired |-> FALSE,
     order |-> IF FilteredDrum(drumType)
               THEN <<"source", "envelope", "filter", "gain">>
               ELSE <<"source", "envelope", "gain">>]

\* The chain playSyntheticNote builds.
SyntheticNoteVoice(note, velocity, layer) ==
    [op |-> "playSyntheticNote", name |-> note,
     source |-> "oscillator",
     allocated |-> {"source", "envelope", "gain"},
     started |-> {"source"},
     disposed |-> {},
     toMaster |-> TRUE,
     gain |-> velocity * layer.volume * SyntheticNoteGainScale,
     frequency |-> noteToFrequency(note) \div 1000,
     duration |-> NotationMs(4),
     release |-> NoteRelease,
     cleanupTime |-> NoteCleanupTime,
     fired |-> FALSE,
     order |-> <<"source", "envelope", "gain">>]

\* The LFO of playAdvancedSynthInternal is built for strings and winds whose
\* parameters have a modulation.
HasLfo(instrumentType, params) ==
    /\ params.modulation \notin {"none", "undefined"}
    /\ instrumentType \in {"strings", "winds"}

\* The chain playAdvancedSynthInternal builds.
AdvancedSynthVoice(frequency, velocity, instrumentType, synthParams, layer) ==
    LET params == IF synthParams = NoSynthParams THEN DefaultParams ELSE synthParams
    IN [op |-> "playAdvancedSynth", name |-> instrumentType,
        source |-> "oscillator",
        allocated |-> {"source", "envelope", "gain"}
                         \cup (IF params.filter THEN {"filter"} ELSE {})
                         \cup (IF HasLfo(instrumentType, params) THEN {"lfo"} ELSE {}),
        started |-> {"source"}
                       \cup (IF HasLfo(instrumentType, params)
                                /\ params.modulation = "vibrato"
                             THEN {"lfo"} ELSE {}),
        disposed |-> {},
        toMaster |-> TRUE,
        gain |-> velocity * layer.volume * globalInstrumentVolume * 10,
        frequency |-> IF instrumentType = "bass" THEN frequency \div 2 ELSE frequency,
        duration |-> IF instrumentType = "piano" THEN NotationMs(1)
                     ELSE IF instrumentType = "pad" THEN NotationMs(2)
                     ELSE IF instrumentType = "bass" THEN NotationMs(4)
                     ELSE NotationMs(8),
        release |-> params.release,
        cleanupTime |-> IF instrumentType = "piano" THEN PianoCleanupTime
                        ELSE IF instrumentType = "pad" THEN PadCleanupTime
                        ELSE SynthCleanupTime,
        fired |-> FALSE,
        order |-> IF params.filter
                  THEN <<"source", "envelope", "filter", "gain">>
                  ELSE <<"source", "envelope", "gain">>]

\* The voices after playSampleInternal, which always plays the synthetic drum.
\* playSyntheticDrum catches the exception of a node constructor and builds
\* nothing.
\* (variant that skips the layer check)
playSampleInternalUnchecked(vs, ls, sampleId, layerId, velocity) ==
    Append(vs, playSyntheticDrum(sampleId,
                  velocity * (IF layerId \in DOMAIN ls THEN ls[layerId].volume ELSE 50)))

playSampleInternal(vs, ls, sampleId, layerId, velocity) ==
    IF ~Playable(ls, layerId) THEN vs
    ELSE IF nodesFail THEN vs
    ELSE Append(vs, playSyntheticDrum(sampleId, velocity * ls[layerId].volume))

\* The voices after playAdvancedSynthInternal, which builds nothing when a
\* node constructor throws, and whether it throws then.
playAdvancedSynthInternal(vs, ls, frequency, layerId, velocity, instrumentType, synthParams) ==
    IF frequency = NotANumber THEN vs       \* frequency.toFixed is not a function
    ELSE IF ~Playable(ls, layerId) THEN vs
    ELSE IF nodesFail THEN vs
    ELSE Append(vs, AdvancedSynthVoice(frequency, velocity, instrumentType,
                                       synthParams, ls[layerId]))

playAdvancedSynthInternalThrows(ls, frequency, layerId) ==
    frequency = NotANumber \/ (Playable(ls, layerId) /\ nodesFail)

\* A callback waiting on context.resume(): the internal operation it will run
\* (op) with its arguments; onPlayable records whether the layer was present
\* and unmuted when the request was made.
Request(op, name, layerId, velocity, frequency, synthParams) ==
    [op |-> op, name |-> name, layerId |-> layerId, velocity |-> velocity,
     frequency |-> frequency, synthParams |-> synthParams,
     onPlayable |-> Playable(layers, layerId)]

\* The voices after the callback r ran; a resume() without a callback (op
\* "resume") builds nothing.
\* (variant that runs the internal operation twice)
RetriedTwice(vs, ls, r) ==
    IF r.op = "resume" THEN vs
    ELSE IF r.op = "playSampleInternal"
    THEN playSampleInternal(playSampleInternal(vs, ls, r.name, r.layerId, r.velocity),
                            ls, r.name, r.layerId, r.velocity)
    ELSE playAdvancedSynthInternal(
            playAdvancedSynthInternal(vs, ls, r.frequency, r.layerId, r.velocity,
                                      r.name, r.synthParams),
            ls, r.frequency, r.layerId, r.velocity, r.name, r.synthParams)

Retried(vs, ls, r) ==
    IF r.op = "resume" THEN vs
    ELSE IF r.op = "playSampleInternal"
    THEN playSampleInternal(vs, ls, r.name, r.layerId, r.velocity)
    ELSE playAdvancedSynthInternal(vs, ls, r.frequency, r.layerId, r.velocity,
                                   r.name, r.synthParams)

\* The setTimeout callback of a one-shot voice.  playSyntheticDrum and
\* playSyntheticNote dispose source, envelope and gain; playAdvancedSynthInternal
\* also disposes effectChain when it is the filter.
CleanedUp(v) ==
    [v EXCEPT
        !.disposed = @ \cup {"source", "envelope", "gain"}
                       \cup (IF v.op = "playAdvancedSynth" /\ "filter" \in v.allocated
                             THEN {"filter"} ELSE {}),
        !.toMaster = FALSE,
        !.fired = TRUE]

playSample(sampleId, layerId, velocity) ==
    /\ call' = Call("playSample", layerId, "")
    /\ IF ~Playable(layers, layerId)
       THEN UNCHANGED <<context, pending, voices>>
       ELSE IF context = "suspended"
       THEN /\ Len(pending) < MaxPending
            /\ pending' = Append(pending, Request("playSampleInternal", sampleId,
                                     layerId, velocity, Undefined, NoSynthParams))
            /\ UNCHANGED <<context, voices>>
       ELSE /\ voices' = playSampleInternal(voices, layers, sampleId, layerId, velocity)
            /\ Len(voices') <= MaxVoices
            /\ UNCHANGED <<context, pending>>
    /\ UNCHANGED <<layers, activeSources, sustainedNotes, chains, timers, now, bootVars, engineVars, auxVars>>

playSyntheticNote(note, layerId, velocity) ==
    /\ IF ~Playable(layers, layerId)
       THEN /\ call' = Call("playSyntheticNote", layerId, "")
            /\ UNCHANGED voices
       ELSE IF nodesFail
       THEN /\ call' = Threw("playSyntheticNote", layerId)
            /\ UNCHANGED voices
       ELSE /\ call' = Call("playSyntheticNote", layerId, "")
            /\ Len(voices) < MaxVoices
            /\ voices' = Append(voices, SyntheticNoteVoice(note, velocity, layers[layerId]))
    /\ UNCHANGED <<layers, activeSources, sustainedNotes, chains, timers, now,
                   context, pending, bootVars, engineVars, auxVars>>

playAdvancedSynth(frequency, layerId, velocity, instrumentType, synthParams) ==
    /\ call' = Call("playAdvancedSynth", layerId, "")
    /\ IF context = "suspended"
       THEN /\ Len(pending) < MaxPending
            /\ pending' = Append(pending, Request("playAdvancedSynthInternal",
                                     instrumentType, layerId, velocity, frequency,
                                     synthParams))
            /\ UNCHANGED <<context, voices>>
       ELSE /\ voices' = playAdvancedSynthInternal(voices, layers, frequency, layerId,
                                                   velocity, instrumentType, synthParams)
            /\ Len(voices') <= MaxVoices
            /\ UNCHANGED <<context, pending>>
    /\ UNCHANGED <<layers, activeSources, sustainedNotes, chains, timers, now, bootVars, engineVars, auxVars>>

\* A context.resume() promise resolves: the context runs, and the callback
\* that waited longest runs its internal operation.
resumed ==
    /\ pending # <<>>
    /\ context' = "running"
    /\ pending' = Tail(pending)
    /\ voices' = Retried(voices, layers, Head(pending))
    /\ Len(voices') <= MaxVoices
    /\ call' = IF /\ Head(pending).op = "playAdvancedSynthInternal"
                  /\ playAdvancedSynthInternalThrows(layers, Head(pending).frequency,
                                                     Head(pending).layerId)
               THEN Unhandled(Head(pending).op, Head(pending).layerId)
               ELSE Call(Head(pending).op, Head(pending).layerId, "")
    /\ UNCHANGED <<layers, activeSources, sustainedNotes, chains, timers, now, bootVars, engineVars, auxVars>>

\* A context.resume() promise rejects: the callback that waited longest never
\* runs, and the promise its then() returned rejects with no handler attached.
resumeRejected ==
    /\ pending # <<>>
    /\ pending' = Tail(pending)
    /\ call' = Unhandled("resumeRejected", Head(pending).layerId)
    /\ UNCHANGED <<layers, activeSources, sustainedNotes, chains, timers, now,
                   context, voices, bootVars, engineVars, auxVars>>

\* The backend starts, and stops, to refuse new audio nodes (the constructors
\* of Tone throw).
backendFails ==
    /\ ~nodesFail
    /\ nodesFail' = TRUE
    /\ call' = Call("backendFails", "", "")
    /\ UNCHANGED <<layers, activeSources, sustainedNotes, chains, timers, now,
                   oneShotVars, bootVars, globalInstrumentVolume, masterGain, limiter,
                   testTimers, bufferPool, loads, auxVars>>

backendRecovers ==
    /\ nodesFail
    /\ nodesFail' = FALSE
    /\ call' = Call("backendRecovers", "", "")
    /\ UNCHANGED <<layers, activeSources, sustainedNotes, chains, timers, now,
                   oneShotVars, bootVars, globalInstrumentVolume, masterGain, limiter,
                   testTimers, bufferPool, loads, auxVars>>

\* The browser suspends the running context (the page loses the audio focus).
suspended ==
    /\ context = "running"
    /\ context' = "suspended"
    /\ call' = Call("suspended", "", "")
    /\ UNCHANGED <<layers, activeSources, sustainedNotes, chains, timers, now,
                   pending, voices, bootVars, engineVars, auxVars>>

\* The cleanup timer of voice i fires.
voiceCleanup(i) ==
    /\ i \in 1..Len(voices)
    /\ ~voices[i].fired
    /\ voices' = [voices EXCEPT ![i] = CleanedUp(@)]
    /\ call' = Call("voiceCleanup", "", "")
    /\ UNCHANGED <<layers, activeSources, sustainedNotes, chains, timers, now,
                   context, pending, bootVars, engineVars, auxVars>>

VoiceTimers == \E i \in 1..Len(voices) : voiceCleanup(i)

\* The one-shot triggers next to the mixer, the context and the sustained
\* starts.
Samples == {"kick", "snare"}
Frequencies == {44000}
Sounds ==
    {<<"strings", ParamsOf("violin-synth")>>, <<"pad", ParamsOf("warm-pad")>>,
     <<"synth", NoSynthParams>>}

OneShotNext ==
    \/ \E l \in LayerIds, v \in Volumes, m \in BOOLEAN : addLayer(l, v, m)
    \/ \E l \in LayerIds : toggleLayerMute(l)
    \/ \E id \in Samples, l \in LayerIds, v \in Velocities : playSample(id, l, v)
    \/ \E n \in Notes, l \in LayerIds, v \in Velocities : playSyntheticNote(n, l, v)
    \/ \E f \in Frequencies, l \in LayerIds, v \in Velocities, snd \in Sounds :
          playAdvancedSynth(f, l, v, snd[1], snd[2])
    \/ resumed
    \/ suspended
    \/ VoiceTimers

OneShotSpec == Init /\ [][OneShotNext]_vars

\* Every operation that starts a voice, on a context that the browser may
\* suspend.
StartNext ==
    \/ \E l \in LayerIds, v \in Volumes : addLayer(l, v, FALSE)
    \/ \E id \in Samples, l \in LayerIds, v \in Velocities : playSample(id, l, v)
    \/ \E n \in Notes, l \in LayerIds, v \in Velocities : playSyntheticNote(n, l, v)
    \/ \E n \in Notes, l \in LayerIds, v \in Velocities : startSustainedNote(n, l, v)
    \/ \E t \in DrumTypes, l \in LayerIds, v \in Velocities : startSustainedDrum(t, l, v)
    \/ resumed
    \/ suspended

StartSpec == Init /\ [][StartNext]_vars

\* The catalog played on a running context: the engine after addLayer and
\* after initialize() made the context run.
CatalogInit ==
    /\ \E l \in LayerIds, v \in ModVolumes :
          /\ layers = [k \in {l} |-> Layer(v, FALSE)]
          /\ activeSources = [k \in {l} |-> <<>>]
          /\ call = Call("addLayer", l, "")
    /\ sustainedNotes = <<>>
    /\ chains = <<>>
    /\ timers = <<>>
    /\ now = 0
    /\ context = "running"
    /\ pending = <<>>
    /\ voices = <<>>
    /\ instance = 1
    /\ windowInstance = 1
    /\ engines = 1
    /\ got = 1
    /\ reloads = 0
    /\ inits = 0
    /\ tests = <<>>
    /\ nodesFail = FALSE
    /\ globalInstrumentVolume = InitialInstrumentVolume
    /\ masterGain = MasterGain
    /\ limiter = Limiter
    /\ testTimers = 0
    /\ bufferPool = <<>>
    /\ loads = <<>>
    /\ AuxInit

CatalogNext ==
    \/ \E f \in Frequencies, l \in LayerIds, v \in Velocities, id \in DOMAIN Catalog :
          playAdvancedSynth(f, l, v, TypeOf(id), ParamsOf(id))
    \/ \E f \in Frequencies, l \in LayerIds, v \in Velocities :
          playAdvancedSynth(f, l, v, "piano", PianoParams)
    \/ VoiceTimers

CatalogSpec == CatalogInit /\ [][CatalogNext]_vars

VoiceIds == 1..Len(voices)

\* The nodes of a voice that are still allocated, and those still running.
Allocated(v) == v.allocated \ v.disposed

Running(v) == v.started \ v.disposed

\* C13: every audio node allocated for a one-shot synthetic drum hit (source,
\* envelope, gain and, for hats and snare, the highpass filter) is disposed by
\* that chain's cleanup timer: once the timer has fired, no node of the chain
\* remains allocated.
C13_DrumHitIsDisposed ==
    \A i \in VoiceIds :
        (voices[i].op = "playSyntheticDrum" /\ voices[i].fired)
            => Allocated(voices[i]) = {}

\* C14: every audio node allocated by playAdvancedSynth for one note
\* (oscillator, envelope, gain, the optional filter and, for strings and winds
\* with a modulation, the LFO) is disposed by that chain's cleanup timer: once
\* the timer has fired, no node of the chain remains allocated or running.
C14_SynthNoteIsDisposed ==
    \A i \in VoiceIds :
        (voices[i].op = "playAdvancedSynth" /\ voices[i].fired)
            => Allocated(voices[i]) = {} /\ Running(voices[i]) = {}

\* C15: for every instrument type and every envelope of the catalog, the
\* cleanup delay of playAdvancedSynth (6000 ms piano, 4000 ms pad, 2000 ms
\* otherwise) is at least the note duration chosen for the type plus the
\* envelope's release time.
C15_CleanupAfterRelease ==
    \A i \in VoiceIds :
        voices[i].op = "playAdvancedSynth"
            => voices[i].cleanupTime >= voices[i].duration + voices[i].release

\* The one-shot triggers, and the internal operations their retries run.
TriggerOps == {"playSample", "playSyntheticNote", "playAdvancedSynth"}

RetryOps == {"playSampleInternal", "playAdvancedSynthInternal"}

\* C16: while a layer is muted, or its id is unknown, no one-shot trigger on it
\* (playSample, playSyntheticNote, playAdvancedSynth, and the retry of a
\* trigger that waited for the context), in any number and any interleaving,
\* creates an audio node or connects anything to the master gain.
C16_MutedBuildsNothing ==
    [][(/\ call'.op \in TriggerOps \cup RetryOps
        /\ \/ call'.layerId \notin DOMAIN layers
           \/ layers[call'.layerId].muted)
          => UNCHANGED <<voices, chains, sustainedNotes>>]_vars

\* C16 witness: on a muted layer, with one request still waiting for the
\* context, the retry of a playAdvancedSynth has run and no voice exists.
C16_Witness ==
    /\ call.op = "playAdvancedSynthInternal"
    /\ call.layerId \in DOMAIN layers
    /\ layers[call.layerId].muted
    /\ pending # <<>>
    /\ voices = <<>>

\* C19 (as claimed): a playSample or playAdvancedSynth called on an existing
\* unmuted layer while the context is suspended is never dropped: when its
\* context.resume() resolves, its retry builds exactly one voice.
C19_RetryAlwaysBuilds ==
    [][(call'.op \in RetryOps /\ Head(pending).onPlayable)
          => Len(voices') = Len(voices) + 1]_vars

\* C19 (amended): a playSample or playAdvancedSynth called on an existing
\* unmuted layer while the context is suspended builds nothing itself and
\* queues exactly one retry behind context.resume(); when the resume resolves
\* the context runs and the retry runs once: it builds exactly one voice, the
\* requested one, when the layer is still present and unmuted at that moment,
\* and nothing otherwise (the request is dropped); it never builds two.
C19_TriggerStep ==
    (/\ call'.op \in {"playSample", "playAdvancedSynth"}
     /\ context = "suspended"
     /\ call'.layerId \in DOMAIN layers
     /\ ~layers[call'.layerId].muted)
        => /\ UNCHANGED <<voices, context>>
           /\ Len(pending') = Len(pending) + 1
           /\ SubSeq(pending', 1, Len(pending)) = pending
           /\ pending'[Len(pending')].layerId = call'.layerId

C19_RetryStep ==
    call'.op \in RetryOps
        => /\ context' = "running"
           /\ pending' = Tail(pending)
           /\ IF Head(pending).layerId \in DOMAIN layers
                 /\ ~layers[Head(pending).layerId].muted
              THEN /\ Len(voices') = Len(voices) + 1
                   /\ SubSeq(voices', 1, Len(voices)) = voices
                   /\ voices'[Len(voices')].name = Head(pending).name
                   /\ voices'[Len(voices')].toMaster
              ELSE UNCHANGED voices

\* C19 (amended): every step obeys C19_TriggerStep and C19_RetryStep.
C19_ResumeThenRetryOnce == [][C19_TriggerStep /\ C19_RetryStep]_vars

\* C19 witness: the retry of a playSample made on a suspended context has run,
\* the context runs and the one voice requested is built.
C19_Witness ==
    /\ call.op = "playSampleInternal"
    /\ context = "running"
    /\ pending = <<>>
    /\ Len(voices) = 1
    /\ voices[1].op = "playSyntheticDrum"
    /\ ~voices[1].fired

\* C20: playSyntheticNote, startSustainedNote and startSustainedDrum check the
\* context first: called while the context is suspended they resume it before
\* they build the voice, and build no node on a suspended context.
C20_StartChecksContext ==
    [][(/\ call'.op \in {"playSyntheticNote", "startSustainedNote", "startSustainedDrum"}
        /\ context = "suspended"
        /\ (voices' # voices \/ chains' # chains))
          => context' = "running"]_vars

\* ---------------------------------------------- singleton and initialize
\* The static field after getInstance's check of the window holder.
\* (variant without the window holder)
HeldStatic(inst, win) == inst

Held(inst, win) == IF win # Undefined THEN win ELSE inst

\* getInstance(): returns the held engine, or constructs one when none is
\* held; the constructor stores the new engine in the window holder.
getInstance ==
    LET held == Held(instance, windowInstance)
    IN /\ IF held = Undefined
          THEN /\ engines' = engines + 1
               /\ instance' = engines + 1
               /\ windowInstance' = engines + 1
               /\ got' = engines + 1
          ELSE /\ instance' = held
               /\ got' = held
               /\ UNCHANGED <<engines, windowInstance>>
       /\ call' = Call("getInstance", "", "")
       /\ UNCHANGED <<layers, activeSources, sustainedNotes, chains, timers, now,
                      oneShotVars, reloads, inits, tests, engineVars, auxVars>>

\* A hot reload evaluates the engine's module again: the static field of the
\* new class is undefined, the window and the engines already built stay.
hotReload ==
    /\ reloads < MaxReloads
    /\ reloads' = reloads + 1
    /\ instance' = Undefined
    /\ call' = Call("hotReload", "", "")
    /\ UNCHANGED <<layers, activeSources, sustainedNotes, chains, timers, now,
                   oneShotVars, windowInstance, engines, got, inits, tests, engineVars, auxVars>>

\* The test chains of testAudioOutput (oscillator and gain, straight to the
\* destination) and of testThroughMasterChain (oscillator, envelope and gain,
\* into the master gain).
DirectTest == [kind |-> "direct", nodes |-> 2, toMaster |-> FALSE, disposed |-> FALSE]

MasterTest == [kind |-> "master", nodes |-> 3, toMaster |-> TRUE, disposed |-> FALSE]

TestIds(kind) == {i \in 1..Len(tests) : tests[i].kind = kind}

\* initialize() up to its await of Tone.start().
initialize ==
    /\ got # Undefined
    /\ inits + Cardinality(TestIds("direct")) < MaxInits
    /\ inits' = inits + 1
    /\ call' = Call("initialize", "", "")
    /\ UNCHANGED <<layers, activeSources, sustainedNotes, chains, timers, now,
                   oneShotVars, instance, windowInstance, engines, got, reloads, tests, engineVars, auxVars>>

\* Tone.start() resolves for one initialize() call: the context runs, and
\* the call goes on to testAudioOutput().
testAudioOutput ==
    /\ inits > 0
    /\ inits' = inits - 1
    /\ context' = "running"
    /\ tests' = Append(tests, DirectTest)
    /\ call' = Call("testAudioOutput", "", "")
    /\ UNCHANGED <<layers, activeSources, sustainedNotes, chains, timers, now,
                   pending, voices, instance, windowInstance, engines, got, reloads, engineVars, auxVars>>

\* The timer of testAudioOutput fires for test chain i: it disposes the
\* chain and runs testThroughMasterChain().
testThroughMasterChain(i) ==
    /\ i \in TestIds("direct")
    /\ ~tests[i].disposed
    /\ tests' = Append([tests EXCEPT ![i].disposed = TRUE], MasterTest)
    /\ call' = Call("testThroughMasterChain", "", "")
    /\ UNCHANGED <<layers, activeSources, sustainedNotes, chains, timers, now,
                   oneShotVars, instance, windowInstance, engines, got, reloads, inits, engineVars, auxVars>>

\* The timer of testThroughMasterChain fires for test chain i.
testCleanup(i) ==
    /\ i \in TestIds("master")
    /\ ~tests[i].disposed
    /\ tests' = [tests EXCEPT ![i].disposed = TRUE, ![i].toMaster = FALSE]
    /\ call' = Call("testCleanup", "", "")
    /\ UNCHANGED <<layers, activeSources, sustainedNotes, chains, timers, now,
                   oneShotVars, instance, windowInstance, engines, got, reloads, inits, engineVars, auxVars>>

TestTimers == \E i \in 1..Len(tests) : testThroughMasterChain(i) \/ testCleanup(i)

\* The page before the first getInstance(): no engine exists.
BootInit ==
    /\ layers = <<>>
    /\ activeSources = <<>>
    /\ sustainedNotes = <<>>
    /\ chains = <<>>
    /\ timers = <<>>
    /\ now = 0
    /\ call = Call("load", "", "")
    /\ context = "suspended"
    /\ pending = <<>>
    /\ voices = <<>>
    /\ instance = Undefined
    /\ windowInstance = Undefined
    /\ engines = 0
    /\ got = Undefined
    /\ reloads = 0
    /\ inits = 0
    /\ tests = <<>>
    /\ nodesFail = FALSE
    /\ globalInstrumentVolume = InitialInstrumentVolume
    /\ masterGain = MasterGain
    /\ limiter = Limiter
    /\ testTimers = 0
    /\ bufferPool = <<>>
    /\ loads = <<>>
    /\ AuxInit

\* The callers of the engine: they fetch it with getInstance(), across hot
\* reloads, and use the engine they got.
BootNext ==
    \/ getInstance
    \/ hotReload
    \/ initialize
    \/ testAudioOutput
    \/ TestTimers
    \/ got # Undefined /\ \E l \in LayerIds, v \in Volumes : addLayer(l, v, FALSE)
    \/ got # Undefined /\ \E n \in Notes, l \in LayerIds, v \in Velocities :
                             startSustainedNote(n, l, v)

BootSpec == BootInit /\ [][BootNext]_vars

\* C17: getInstance always returns the one original engine: any two calls
\* return the same instance, and after a hot reload has reset the static
\* instance field a further getInstance returns the original engine, with its
\* layer map and its sustained-note registry as they were, and constructs no
\* second engine.
C17_GetInstanceStep ==
    call'.op = "getInstance" =>
        /\ got' = 1
        /\ got # Undefined => got' = got
        /\ engines # 0 => engines' = engines
        /\ UNCHANGED <<layers, activeSources, sustainedNotes, chains, voices>>

\* C17: every step obeys C17_GetInstanceStep, and there is never more than
\* one engine.
C17_OneEngine == [][C17_GetInstanceStep]_vars /\ [](engines <= 1 /\ got \in {Undefined, 1})

\* C17 witness: after a hot reload a getInstance has returned the original
\* engine, which still has its layer and its registered note.
C17_Witness ==
    /\ call.op = "getInstance"
    /\ reloads > 0
    /\ instance = 1 /\ got = 1 /\ engines = 1
    /\ layers # <<>>
    /\ sustainedNotes # <<>>

\* C18: initialize() is idempotent, also under calls that overlap: any number
\* of initialize() calls builds the test chains of a single call (one direct
\* test chain, one test chain through the master gain) and no more.
C18_InitializeOnce ==
    /\ Cardinality(TestIds("direct")) <= 1
    /\ Cardinality(TestIds("master")) <= 1

\* ------------------------------------------------------------- failures
\* Every playback operation on a backend that may refuse new nodes and a
\* context whose resume() may reject.
FaultNext ==
    \/ \E l \in LayerIds, v \in Volumes : addLayer(l, v, FALSE)
    \/ \E id \in Samples, l \in LayerIds, v \in Velocities : playSample(id, l, v)
    \/ \E n \in Notes, l \in LayerIds, v \in Velocities : playSyntheticNote(n, l, v)
    \/ \E f \in Frequencies, l \in LayerIds, v \in Velocities :
          playAdvancedSynth(f, l, v, "synth", NoSynthParams)
    \/ \E n \in Notes, l \in LayerIds, v \in Velocities : startSustainedNote(n, l, v)
    \/ \E t \in DrumTypes, l \in LayerIds, v \in Velocities : startSustainedDrum(t, l, v)
    \/ resumed
    \/ resumeRejected
    \/ suspended
    \/ backendFails
    \/ backendRecovers

FaultSpec == Init /\ [][FaultNext]_vars

\* C21: if resuming a suspended context fails (the resume promise rejects),
\* the triggering playSample / playAdvancedSynth call is dropped: no voice is
\* built, and the failure is handled inside the engine, so that no exception
\* and no unhandled promise rejection escapes.
C21_ResumeFailureIsHandled ==
    [][call'.op = "resumeRejected"
          => /\ UNCHANGED <<voices, chains, sustainedNotes>>
             /\ pending' = Tail(pending)
             /\ call'.outcome = "returned"]_vars

\* The public playback operations.
PlaybackOps ==
    {"playSample", "playSyntheticNote", "playAdvancedSynth",
     "startSustainedNote", "startSustainedDrum"}

\* C22: no public playback operation (playSample, playSyntheticNote,
\* playAdvancedSynth, startSustainedNote, startSustainedDrum) propagates an
\* exception to its caller when the construction of one of its audio nodes
\* fails: the failure is caught inside the engine and only that voice is
\* silent (nothing is built or registered for it).
C22_NoThrowPastEngine ==
    [][(call'.op \in PlaybackOps /\ nodesFail)
          => /\ call'.outcome = "returned"
             /\ UNCHANGED <<voices, chains, sustainedNotes>>]_vars

\* ------------------------------------------------------------ the mixer
\* Two layers, added, changed and removed next to one-shot triggers, on the
\* engine after initialize() made its context run.

\* The layers the application keeps after it removed layerId:
\* instrumentLayers.filter(l => l.id !== layerId).
Remaining(layerId) ==
    {[k \in DOMAIN instrumentLayers \ {layerId} |-> instrumentLayers[k]]}

MixerNext ==
    \/ \E l \in MixerLayerIds, v \in MixerVolumes, m \in BOOLEAN : addLayer(l, v, m)
    \/ \E l \in MixerLayerIds, v \in MixerVolumes : updateLayerVolume(l, v)
    \/ \E l \in MixerLayerIds : toggleLayerMute(l)
    \/ \E l \in MixerLayerIds : clearLayer(l)
    \/ \E l \in MixerLayerIds : \E r \in Remaining(l) : removeLayer(l, r)
    \/ \E v \in InstrumentVolumes : updateGlobalInstrumentVolume(v)
    \/ \E l \in MixerLayerIds, v \in Velocities : playSample("kick", l, v)
    \/ \E n \in Notes, l \in MixerLayerIds, v \in Velocities : playSyntheticNote(n, l, v)
    \/ \E f \in Frequencies, l \in MixerLayerIds, v \in Velocities :
          playAdvancedSynth(f, l, v, "synth", NoSynthParams)

\* What initialize() leaves next to the layer maps: the context runs.
Initialized ==
    /\ sustainedNotes = <<>>
    /\ chains = <<>>
    /\ timers = <<>>
    /\ now = 0
    /\ context = "running"
    /\ pending = <<>>
    /\ voices = <<>>
    /\ instance = 1
    /\ windowInstance = 1
    /\ engines = 1
    /\ got = 1
    /\ reloads = 0
    /\ inits = 0
    /\ tests = <<>>
    /\ nodesFail = FALSE
    /\ globalInstrumentVolume = InitialInstrumentVolume
    /\ masterGain = MasterGain
    /\ limiter = Limiter
    /\ testTimers = 0
    /\ bufferPool = <<>>
    /\ loads = <<>>

\* The engine after initialize() has resolved.
ReadyEngine ==
    /\ layers = <<>>
    /\ activeSources = <<>>
    /\ call = Call("initialize", "", "")
    /\ Initialized

MixerInit == ReadyEngine /\ AuxInit

MixerSpec == MixerInit /\ [][MixerNext]_vars

\* C23: removing a layer destroys it in the engine: after the application's
\* layer-removal operation for id (App.removeLayer, which calls
\* engine.clearLayer), engine.hasLayer(id) is false and later triggers on id
\* build no chain; removing an id that does not exist is a no-op.
C23_RemovedLayerIsGone ==
    [][call'.op = "removeLayer"
          => /\ ~hasLayer(layers', call'.layerId)
             /\ ~hasLayer(layers, call'.layerId)
                   => \A k \in DOMAIN layers : hasLayer(layers', k) /\ layers'[k] = layers[k]]_vars

\* C24: the layer map holds exactly one Layer per id after any sequence of
\* addLayer / updateLayerVolume / toggleLayerMute: addLayer with an existing
\* id replaces the entry (the map gains no other key and keeps every other
\* entry), updateLayerVolume / toggleLayerMute on a known id change that entry
\* only, and on an unknown id they change nothing and create no layer.
C24_MapStep ==
    /\ call'.op = "addLayer"
          => /\ DOMAIN layers' = DOMAIN layers \cup {call'.layerId}
             /\ layers'[call'.layerId].volume = call'.volume
             /\ \A k \in DOMAIN layers \ {call'.layerId} : layers'[k] = layers[k]
    /\ (call'.op \in {"updateLayerVolume", "toggleLayerMute"}
            /\ ~hasLayer(layers, call'.layerId))
          => layers' = layers
    /\ (call'.op = "updateLayerVolume" /\ hasLayer(layers, call'.layerId))
          => layers' = [layers EXCEPT ![call'.layerId].volume = call'.volume]
    /\ (call'.op = "toggleLayerMute" /\ hasLayer(layers, call'.layerId))
          => layers' = [layers EXCEPT ![call'.layerId].muted = ~layers[call'.layerId].muted]

C24_OneLayerPerId == [][C24_MapStep]_vars

\* C24 witness: addLayer ran with volume 100 on "piano", the only id of the
\* map, which it held before (a note was played on it at volume 60): the map
\* still has that one key, with the new volume.
C24_Witness ==
    /\ call.op = "addLayer"
    /\ call.layerId = "piano"
    /\ call.volume = 100
    /\ DOMAIN layers = {"piano"}
    /\ layers["piano"].volume = 100
    /\ voices # <<>>
    /\ voices[1].op = "playSyntheticNote"
    /\ voices[1].gain = 70 * 60 * SyntheticNoteGainScale

\* C25: after updateLayerVolume(id, newVolume), every new one-shot trigger on
\* that layer (playAdvancedSynth, playSample, playSyntheticNote) builds its
\* gain node with value velocity x newVolume x globalVolume, using the new
\* layer volume and the current global instrument volume.
C25_GainFollowsVolumes ==
    [][(call'.op \in TriggerOps \cup RetryOps /\ Len(voices') = Len(voices) + 1)
          => \E v \in Velocities :
                voices'[Len(voices')].gain
                    = v * layers[call'.layerId].volume * globalInstrumentVolume * 10]_vars

\* ------------------------------------------------------- the master bus
\* this.masterGain.connect(recorder)
\* (variant that disconnects the master gain before it connects the recorder)
WithRecorderOnly(mg) ==
    [mg EXCEPT !.recorders = 1, !.toLimiter = FALSE, !.disconnects = @ + 1]

WithRecorder(mg) == [mg EXCEPT !.recorders = @ + 1]

\* masterGain.disconnect(); masterGain.connect(limiter): every output of the
\* master gain is dropped, recorders included, and the limiter is connected
\* again.
Rewired(mg) ==
    [mg EXCEPT !.recorders = 0, !.toLimiter = TRUE, !.disconnects = @ + 1]

\* limiter.disconnect(); limiter.toDestination()
Rerouted(lim) == [lim EXCEPT !.toDestination = TRUE, !.disconnects = @ + 1]

updateMasterGain(gain) ==
    /\ masterGain' = [masterGain EXCEPT !.gain = gain]
    /\ call' = [Call("updateMasterGain", "", "") EXCEPT !.volume = gain]
    /\ UNCHANGED <<layers, activeSources, sustainedNotes, chains, timers, now,
                   oneShotVars, bootVars, nodesFail, globalInstrumentVolume, limiter,
                   testTimers, bufferPool, loads, auxVars>>

updateLimiterThreshold(threshold) ==
    /\ limiter' = [limiter EXCEPT !.threshold = threshold]
    /\ call' = Call("updateLimiterThreshold", "", "")
    /\ UNCHANGED <<layers, activeSources, sustainedNotes, chains, timers, now,
                   oneShotVars, bootVars, nodesFail, globalInstrumentVolume, masterGain,
                   testTimers, bufferPool, loads, auxVars>>

createRecorder ==
    /\ masterGain.recorders < MaxRecorders
    /\ masterGain' = WithRecorder(masterGain)
    /\ call' = Call("createRecorder", "", "")
    /\ UNCHANGED <<layers, activeSources, sustainedNotes, chains, timers, now,
                   oneShotVars, bootVars, nodesFail, globalInstrumentVolume, limiter,
                   testTimers, bufferPool, loads, auxVars>>

\* refreshAudioRouting(): resumes a context that does not run, disconnects
\* and reconnects masterGain -> limiter -> destination, and sets the timer of
\* testAudio().
refreshAudioRouting ==
    /\ masterGain.disconnects < MaxRefreshes
    /\ IF context # "running"
       THEN /\ Len(pending) < MaxPending
            /\ pending' = Append(pending,
                              Request("resume", "", "", 0, Undefined, NoSynthParams))
       ELSE UNCHANGED pending
    /\ masterGain' = Rewired(masterGain)
    /\ limiter' = Rerouted(limiter)
    /\ testTimers' = testTimers + 1
    /\ call' = Call("refreshAudioRouting", "", "")
    /\ UNCHANGED <<layers, activeSources, sustainedNotes, chains, timers, now,
                   context, voices, bootVars, nodesFail, globalInstrumentVolume,
                   bufferPool, loads, auxVars>>

\* The timer of refreshAudioRouting fires: testAudio() runs testAudioOutput(),
\* which builds its test chain.
testAudio ==
    /\ testTimers > 0
    /\ testTimers' = testTimers - 1
    /\ tests' = Append(tests, DirectTest)
    /\ call' = Call("testAudio", "", "")
    /\ UNCHANGED <<layers, activeSources, sustainedNotes, chains, timers, now,
                   oneShotVars, instance, windowInstance, engines, got, reloads, inits,
                   nodesFail, globalInstrumentVolume, masterGain, limiter,
                   bufferPool, loads, auxVars>>

MasterGains == {100}
Thresholds == {-30}

\* One voice of each kind next to the operations on the master bus.
BusNext ==
    \/ \E l \in LayerIds, v \in Volumes : addLayer(l, v, FALSE)
    \/ Len(voices) < 1 /\ \E l \in LayerIds, v \in Velocities : playSample("kick", l, v)
    \/ Len(chains) < 1 /\ \E n \in Notes, l \in LayerIds, v \in Velocities :
                              startSustainedNote(n, l, v)
    \/ \E id \in DOMAIN sustainedNotes : modulateSustainedNote(id, 100)
    \/ \E id \in DOMAIN sustainedNotes : stopSustainedNote(id)
    \/ Timers
    \/ Clock
    \/ VoiceTimers
    \/ \E g \in MasterGains : updateMasterGain(g)
    \/ \E t \in Thresholds : updateLimiterThreshold(t)
    \/ createRecorder
    \/ refreshAudioRouting
    \/ testAudio
    \/ TestTimers

BusSpec == MixerInit /\ [][BusNext]_vars

\* The path masterGain -> limiter -> output is connected.
BusConnected == masterGain.toLimiter /\ limiter.toDestination

\* C26: no voice operation touches the master bus wiring: across any sequence
\* of triggers, sustained start/modulate/stop, cleanup timers,
\* updateMasterGain, updateLimiterThreshold and createRecorder, the path
\* masterGain -> limiter -> output stays connected and is never rebuilt; only
\* refreshAudioRouting disconnects and reconnects it.
C26_BusStep ==
    /\ BusConnected'
    /\ IF call'.op = "refreshAudioRouting"
       THEN /\ masterGain'.disconnects = masterGain.disconnects + 1
            /\ limiter'.disconnects = limiter.disconnects + 1
       ELSE /\ masterGain'.disconnects = masterGain.disconnects
            /\ limiter'.disconnects = limiter.disconnects
            /\ masterGain'.toLimiter = masterGain.toLimiter
            /\ limiter'.toDestination = limiter.toDestination
    /\ call'.op = "updateMasterGain"
          => masterGain' = [masterGain EXCEPT !.gain = call'.volume] /\ limiter' = limiter
    /\ call'.op = "updateLimiterThreshold"
          => masterGain' = masterGain /\ limiter'.threshold \in Thresholds

C26_MasterBusUntouched == [][C26_BusStep]_vars

\* C26 witness: with a sustained chain in release, a one-shot voice cleaned
\* up, the master gain and the threshold changed and a recorder connected
\* after one refreshAudioRouting, the path is connected and was rebuilt once.
C26_Witness ==
    /\ \E c \in ChainIds : chains[c].releases > 0
    /\ \E i \in VoiceIds : voices[i].fired
    /\ masterGain.gain \in MasterGains
    /\ limiter.threshold \in Thresholds
    /\ masterGain.recorders = 1
    /\ masterGain.disconnects = 1 /\ limiter.disconnects = 1
    /\ BusConnected

\* ------------------------------------------------------ chain topology
\* The position of a node in a chain, and whether the chain has the node.
Position(order, node) == CHOOSE i \in 1..Len(order) : order[i] = node

Has(order, node) == \E i \in 1..Len(order) : order[i] = node

FilterBeforeEnvelope(order) == Position(order, "filter") < Position(order, "envelope")

\* The orders of the chains built so far that have a filter.
FilteredOrders ==
    {voices[i].order : i \in {j \in VoiceIds : Has(voices[j].order, "filter")}}
        \cup {chains[c].order : c \in {d \in ChainIds : Has(chains[d].order, "filter")}}

\* C27: the filter sits at the same position of the signal chain in every
\* chain builder: one-shot drums (playSyntheticDrum), one-shot synth notes
\* (playAdvancedSynth) and sustained notes and drums all place the filter on
\* the same side of the envelope.
C27_FilterSameSide ==
    \A o1 \in FilteredOrders, o2 \in FilteredOrders :
        FilterBeforeEnvelope(o1) = FilterBeforeEnvelope(o2)

\* -------------------------------------------------------- the drum kit
\* Every drum of the kit as a one-shot hit and as a sustained drum, on the
\* engine after initialize() made its context run.
KitNext ==
    \/ \E l \in LayerIds, v \in Volumes : addLayer(l, v, FALSE)
    \/ \E t \in DrumKit, l \in LayerIds, v \in Velocities : playSample(t, l, v)
    \/ \E t \in DrumKit, l \in LayerIds, v \in Velocities : startSustainedDrum(t, l, v)

KitSpec == MixerInit /\ [][KitNext]_vars

\* The unpitched drums of the kit.
Unpitched == {"snare", "hihat", "openhat", "crash", "ride"}

\* C30: for every unpitched drum type of the kit (snare, hihat, openhat,
\* crash, ride), both the one-shot builder (createDrumSound) and the sustained
\* builder (startSustainedDrum) instantiate a noise generator as the source,
\* never a pitched oscillator.
C30_UnpitchedIsNoise ==
    /\ \A i \in VoiceIds :
          (voices[i].op = "playSyntheticDrum" /\ voices[i].name \in Unpitched)
              => voices[i].source = "noise"
    /\ \A c \in ChainIds :
          chains[c].name \in Unpitched => chains[c].source = "noise"

\* ------------------------------------------------------ the sample pool
\* What buffer.load(url) yields: a buffer with samples, a buffer of length 0,
\* or a rejection (the file is missing).
Fetch(url) ==
    IF url = "/samples/kick.wav" THEN [url |-> url, loaded |-> TRUE, length |-> 100]
    ELSE IF url = "/samples/empty.wav" THEN [url |-> url, loaded |-> TRUE, length |-> 0]
    ELSE [url |-> url, loaded |-> FALSE, length |-> 0]

\* The pool after loadSample's await: the buffer is stored when it is loaded
\* and not empty; everything else ends in the catch block, which stores nothing.
\* (variant that stores every loaded buffer)
StoredIfLoaded(pool, id, buffer) ==
    IF buffer.loaded
    THEN [k \in DOMAIN pool \cup {id} |-> IF k = id THEN buffer ELSE pool[k]]
    ELSE pool

Stored(pool, id, buffer) ==
    IF buffer.loaded /\ buffer.length > 0
    THEN [k \in DOMAIN pool \cup {id} |-> IF k = id THEN buffer ELSE pool[k]]
    ELSE pool

\* loadSample(id, url) up to its await of buffer.load(url); for an id the pool
\* holds it returns at once.
loadSample(id, url) ==
    /\ IF id \in DOMAIN bufferPool
       THEN UNCHANGED loads
       ELSE /\ Len(loads) < MaxLoads
            /\ loads' = Append(loads, [id |-> id, url |-> url])
    /\ call' = Call("loadSample", "", id)
    /\ UNCHANGED <<layers, activeSources, sustainedNotes, chains, timers, now,
                   oneShotVars, bootVars, nodesFail, globalInstrumentVolume, masterGain,
                   limiter, testTimers, bufferPool, auxVars>>

\* buffer.load(url) of the waiting call i settles, and the call runs to its
\* end: its promise resolves, by the try/catch also when the load rejected
\* or the buffer is empty.
loadSettled(i) ==
    /\ i \in 1..Len(loads)
    /\ bufferPool' = Stored(bufferPool, loads[i].id, Fetch(loads[i].url))
    /\ loads' = RemoveAt(loads, i)
    /\ call' = Call("loadSettled", "", loads[i].id)
    /\ UNCHANGED <<layers, activeSources, sustainedNotes, chains, timers, now,
                   oneShotVars, bootVars, nodesFail, globalInstrumentVolume, masterGain,
                   limiter, testTimers, auxVars>>

PoolNext ==
    \/ \E l \in LayerIds, v \in Volumes : addLayer(l, v, FALSE)
    \/ \E id \in Samples, url \in Urls : loadSample(id, url)
    \/ \E i \in 1..Len(loads) : loadSettled(i)
    \/ \E id \in Samples, l \in LayerIds, v \in Velocities : playSample(id, l, v)
    \/ VoiceTimers

PoolSpec == MixerInit /\ [][PoolNext]_vars

\* C28: playSample tries the sample pool first: when a loaded buffer for
\* sampleId is in the pool and the layer exists and is unmuted, playSample
\* plays that buffer (the voice is a player of the buffer); it falls back to
\* synthesising the drum only when the pool has no loaded buffer for sampleId.
C28_PoolFirst ==
    [][(call'.op \in {"playSample", "playSampleInternal"}
           /\ Len(voices') = Len(voices) + 1)
          => LET voice == voices'[Len(voices')]
             IN IF voice.name \in DOMAIN bufferPool /\ bufferPool[voice.name].loaded
                THEN voice.op = "player"
                ELSE voice.op = "playSyntheticDrum"]_vars

\* The load of the waiting call i failed: it rejected, or its buffer is empty.
LoadFailed(i) == ~(Fetch(loads[i].url).loaded /\ Fetch(loads[i].url).length > 0)

\* C29 (as claimed): loadSample(id, url) never rejects: when loading fails or
\* yields an empty buffer, the returned promise still resolves and id is
\* absent from the pool; an id is in the pool only if its buffer loaded with
\* non-zero length.
C29_FailedLoadLeavesIdAbsent ==
    [][call'.op = "loadSettled"
          => \E i \in 1..Len(loads) :
                /\ loads' = RemoveAt(loads, i)
                /\ loads[i].id = call'.noteId
                /\ call'.outcome = "returned"
                /\ LoadFailed(i) => call'.noteId \notin DOMAIN bufferPool']_vars

\* C29 (amended): loadSample(id, url) never rejects: a call whose load fails
\* or yields an empty buffer still resolves and leaves the pool as it was (it
\* does not add id; id is in the pool afterwards only if another call loaded
\* it meanwhile); a call whose buffer loaded with non-zero length stores that
\* buffer under id and changes no other entry; a call for an id the pool
\* holds already loads nothing.
C29_LoadStep ==
    /\ call'.op = "loadSettled"
          => \E i \in 1..Len(loads) :
                /\ loads' = RemoveAt(loads, i)
                /\ loads[i].id = call'.noteId
                /\ call'.outcome = "returned"
                /\ IF LoadFailed(i)
                   THEN bufferPool' = bufferPool
                   ELSE /\ DOMAIN bufferPool' = DOMAIN bufferPool \cup {call'.noteId}
                        /\ bufferPool'[call'.noteId] = Fetch(loads[i].url)
                        /\ \A k \in DOMAIN bufferPool \ {call'.noteId} :
                              bufferPool'[k] = bufferPool[k]
    /\ call'.op = "loadSample"
          => /\ call'.outcome = "returned"
             /\ bufferPool' = bufferPool
             /\ call'.noteId \in DOMAIN bufferPool => loads' = loads

\* C29 (amended): every step obeys C29_LoadStep, and an id is in the pool only
\* with a buffer that loaded with non-zero length.
C29_LoadNeverRejects ==
    /\ [][C29_LoadStep]_vars
    /\ [](\A id \in DOMAIN bufferPool : bufferPool[id].loaded /\ bufferPool[id].length > 0)

\* C29 witness: a load for "kick" that failed or came back empty has settled
\* and its promise resolved: nothing waits any more, and the pool is empty.
C29_Witness ==
    /\ call.op = "loadSettled"
    /\ call.noteId = "kick"
    /\ call.outcome = "returned"
    /\ loads = <<>>
    /\ bufferPool = <<>>

\* ---------------------------------------------------- note frequencies
\* The engine calls noteToFrequency with the string of the note that was
\* triggered.
noteToFrequencyCall ==
    /\ noteFrequency' = noteToFrequency(Text(noteInput))
    /\ call' = Call("noteToFrequency", "", Text(noteInput))
    /\ UNCHANGED <<playbackVars, noteInput, wavVars, worker, appVars>>

NoteInit ==
    /\ ReadyEngine
    /\ noteInput \in NoteStrings
    /\ noteFrequency = Undefined
    /\ WavIdle
    /\ WorkerInit
    /\ AppIdle

NoteNext == noteToFrequencyCall

NoteSpec == NoteInit /\ [][NoteNext]_vars

\* chars denotes a note of the 12-tone scale followed by an octave number.
ValidNote(chars) ==
    /\ noteRegex(chars) # 0
    /\ Text(SubSeq(chars, 1, noteRegex(chars) - 1)) \in DOMAIN noteOffsets

\* octave x 12 + semitone of a valid note
NoteIndex(chars) ==
    parseInt(SubSeq(chars, noteRegex(chars), Len(chars))) * 12
    + noteOffsets[Text(SubSeq(chars, 1, noteRegex(chars) - 1))]

\* C31: for every malformed note string (one that does not denote a note of
\* the 12-tone scale followed by an octave number, "E#4" included),
\* noteToFrequency returns 440.
C31_MalformedIs440 ==
    (call.op = "noteToFrequency" /\ ~ValidNote(noteInput))
        => noteFrequency = A4Frequency

charCodeAt ==
    ("R" :> 82) @@ ("I" :> 73) @@ ("F" :> 70) @@ ("W" :> 87) @@ ("A" :> 65)
    @@ ("V" :> 86) @@ ("E" :> 69) @@ ("f" :> 102) @@ ("m" :> 109) @@ ("t" :> 116)
    @@ (" " :> 32) @@ ("d" :> 100) @@ ("a" :> 97)

\* The n bytes of value, the most significant first.
\* (byte order of a DataView setter called without littleEndian)
RECURSIVE BigEndian(_, _)
BigEndian(value, n) ==
    IF n = 0 THEN <<>> ELSE Append(BigEndian(value \div 256, n - 1), value % 256)

\* The n bytes of value, the least significant first: the byte order of a
\* DataView setter called with littleEndian = true.
RECURSIVE LittleEndian(_, _)
LittleEndian(value, n) ==
    IF n = 0 THEN <<>> ELSE <<value % 256>> \o LittleEndian(value \div 256, n - 1)

\* The view with bytes written from byte offset on.
Written(view, offset, bytes) ==
    [k \in 1..Len(view) |->
        IF k - 1 \in offset..(offset + Len(bytes) - 1) THEN bytes[k - offset] ELSE view[k]]

\* view.setUint8(offset, value)
setUint8(view, offset, value) == Written(view, offset, <<value % 256>>)

\* view.setUint16(offset, value, true)
setUint16(view, offset, value) == Written(view, offset, LittleEndian(value % 65536, 2))

\* view.setUint32(offset, value, true); the highest value written is below 2^31
setUint32(view, offset, value) == Written(view, offset, LittleEndian(value, 4))

\* view.setInt16(offset, value, true): the two's complement of value
setInt16(view, offset, value) == Written(view, offset, LittleEndian(value % 65536, 2))

\* writeString(offset, string)
RECURSIVE writeString(_, _, _)
writeString(view, offset, string) ==
    IF string = <<>> THEN view
    ELSE writeString(setUint8(view, offset, charCodeAt[Head(string)]), offset + 1, Tail(string))

\* Math.max(-1, Math.min(1, x)), in 1/1000
Clamped(x) == Max(-1000, Min(1000, x))

\* sample * 0x7FFF as setInt16 takes it: truncated toward zero
Scaled(sample) ==
    IF sample >= 0 THEN (sample * 32767) \div 1000 ELSE 0 - ((0 - sample) * 32767) \div 1000

\* The nested loops over i and channel, from position p = i * numberOfChannels
\* + channel on.
RECURSIVE writeSamples(_, _, _)
writeSamples(view, buffer, p) ==
    IF p >= buffer.length * buffer.numberOfChannels THEN view
    ELSE LET i == p \div buffer.numberOfChannels
             channel == p % buffer.numberOfChannels
             sample == Clamped(buffer.channelData[channel + 1][i + 1])
         IN writeSamples(
                setInt16(view, 44 + (i * buffer.numberOfChannels + channel) * 2, Scaled(sample)),
                buffer, p + 1)

bufferToWAV(buffer) ==
    LET length == buffer.length
        numberOfChannels == buffer.numberOfChannels
        sampleRate == buffer.sampleRate
        v0 == [k \in 1..(44 + length * numberOfChannels * 2) |-> 0]
        v1 == writeString(v0, 0, <<"R", "I", "F", "F">>)
        v2 == setUint32(v1, 4, 36 + length * numberOfChannels * 2)
        v3 == writeString(v2, 8, <<"W", "A", "V", "E">>)
        v4 == writeString(v3, 12, <<"f", "m", "t", " ">>)
        v5 == setUint32(v4, 16, 16)
        v6 == setUint16(v5, 20, 1)
        v7 == setUint16(v6, 22, numberOfChannels)
        v8 == setUint32(v7, 24, sampleRate)
        v9 == setUint32(v8, 28, sampleRate * numberOfChannels * 2)
        v10 == setUint16(v9, 32, numberOfChannels * 2)
        v11 == setUint16(v10, 34, 16)
        v12 == writeString(v11, 36, <<"d", "a", "t", "a">>)
        v13 == setUint32(v12, 40, length * numberOfChannels * 2)
    IN writeSamples(v13, buffer, 0)

\* generateDrumSample / generateNoteSample / generateChordSample hand the
\* rendered buffer to bufferToWAV.
bufferToWAVCall ==
    /\ wavBytes' = bufferToWAV(wavBuffer)
    /\ call' = Call("bufferToWAV", "", "")
    /\ UNCHANGED <<playbackVars, noteVars, wavBuffer, toneContext, rendering, worker, appVars>>

\* The buffers handed to bufferToWAV.
AudioBuffers ==
    {AudioBuffer(r, d) :
        r \in SampleRates,
        d \in UNION {[1..c -> [1..l -> SampleValues]] : c \in 1..MaxChannels, l \in 0..MaxFrames}}

WavInit ==
    /\ ReadyEngine
    /\ NoteIdle
    /\ wavBuffer \in AudioBuffers
    /\ wavBytes = <<>>
    /\ toneContext = "live"
    /\ rendering = FALSE
    /\ WorkerInit
    /\ AppIdle

WavNext == bufferToWAVCall

WavSpec == WavInit /\ [][WavNext]_vars

\* A reader of the file: the unsigned little-endian number in the n bytes at
\* byte offset.
RECURSIVE ReadLE(_, _, _)
ReadLE(bytes, offset, n) ==
    IF n = 0 THEN 0 ELSE bytes[offset + 1] + 256 * ReadLE(bytes, offset + 1, n - 1)

\* The signed 16-bit little-endian number at byte offset.
ReadInt16LE(bytes, offset) ==
    IF ReadLE(bytes, offset, 2) >= 32768
    THEN ReadLE(bytes, offset, 2) - 65536
    ELSE ReadLE(bytes, offset, 2)

\* The four characters at byte offset are those of tag.
TagAt(bytes, offset, tag) == \A k \in 1..4 : bytes[offset + k] = charCodeAt[tag[k]]

\* C33: for a buffer of L frames and C channels bufferToWAV produces exactly
\* 44 + 2LC bytes; the header is RIFF/WAVE with RIFF size 36 + 2LC, fmt chunk
\* size 16, format tag 1, channel count C, the sample rate, byte rate
\* sampleRate x C x 2, block align 2C, 16 bits per sample and data size 2LC,
\* all little-endian; the sample of frame i and channel c is at byte offset
\* 44 + 2(iC + c), as the signed 16-bit value of the clamped sample.
C33_WavLayout ==
    call.op = "bufferToWAV" =>
        LET L == wavBuffer.length
            C == wavBuffer.numberOfChannels
        IN /\ Len(wavBytes) = 44 + 2 * L * C
           /\ \A k \in 1..Len(wavBytes) : wavBytes[k] \in 0..255
           /\ TagAt(wavBytes, 0, <<"R", "I", "F", "F">>)
           /\ ReadLE(wavBytes, 4, 4) = 36 + 2 * L * C
           /\ TagAt(wavBytes, 8, <<"W", "A", "V", "E">>)
           /\ TagAt(wavBytes, 12, <<"f", "m", "t", " ">>)
           /\ ReadLE(wavBytes, 16, 4) = 16
           /\ ReadLE(wavBytes, 20, 2) = 1
           /\ ReadLE(wavBytes, 22, 2) = C
           /\ ReadLE(wavBytes, 24, 4) = wavBuffer.sampleRate
           /\ ReadLE(wavBytes, 28, 4) = wavBuffer.sampleRate * C * 2
           /\ ReadLE(wavBytes, 32, 2) = 2 * C
           /\ ReadLE(wavBytes, 34, 2) = 16
           /\ TagAt(wavBytes, 36, <<"d", "a", "t", "a">>)
           /\ ReadLE(wavBytes, 40, 4) = 2 * L * C
           /\ \A i \in 0..(L - 1), c \in 0..(C - 1) :
                 ReadInt16LE(wavBytes, 44 + 2 * (i * C + c))
                    = Scaled(Clamped(wavBuffer.channelData[c + 1][i + 1]))

\* C33 witness: a buffer of two frames and two channels whose four samples
\* are not all the same has been encoded into 52 bytes.
C33_Witness ==
    /\ call.op = "bufferToWAV"
    /\ wavBuffer.length = 2
    /\ wavBuffer.numberOfChannels = 2
    /\ wavBuffer.channelData[1] = <<-1500, 1000>>
    /\ wavBuffer.channelData[2] = <<-500, -500>>
    /\ Len(wavBytes) = 52

\* ------------------------------------------------------ the repair worker
\* { ...this.config, ...newConfig }
Merged(config, newConfig) ==
    [k \in DOMAIN config |-> IF k \in DOMAIN newConfig THEN newConfig[k] ELSE config[k]]

\* updateConfig(newConfig): the test for a new interval reads this.config
\* after newConfig has been merged into it.
updateConfig(w, newConfig) ==
    LET wasEnabled == w.config["enabled"]
        w1 == [w EXCEPT !.config = Merged(@, newConfig)]
        w2 == IF wasEnabled # w1.config["enabled"]
              THEN setEnabled(w1, w1.config["enabled"])
              ELSE w1
    IN IF /\ w2.isRunning
          /\ "checkInterval" \in DOMAIN newConfig
          /\ newConfig["checkInterval"] # 0
          /\ newConfig["checkInterval"] # w2.config["checkInterval"]
       THEN start(stop(w2))
       ELSE w2

\* The health status after checkAudioHealth has looked at the engine, whose
\* layer map is ls.
Observed(w, ls) ==
    [w EXCEPT !.healthStatus.engineAvailable = TRUE,
              !.healthStatus.audioContextRunning = (context = "running"),
              !.healthStatus.layersInitialized =
                    (ls # <<>> /\ hasLayer(ls, "piano") /\ hasLayer(ls, "drums")),
              !.healthStatus.timestamp = DateNow]

needsRepair(w) ==
    /\ w.healthStatus.engineAvailable
    /\ w.healthStatus.audioContextRunning
    /\ ~w.healthStatus.layersInitialized

\* (variant that only waits for retryDelay)
shouldAttemptRepairAfterDelay(w) ==
    DateNow - w.healthStatus.lastRepairAttempt >= w.config["retryDelay"]

shouldAttemptRepair(w) ==
    IF w.healthStatus.repairAttempts >= w.config["maxRetries"] THEN FALSE
    ELSE DateNow - w.healthStatus.lastRepairAttempt >= w.config["retryDelay"]

\* The worker after attemptRepair: both layers are in the engine afterwards.
attemptRepair(w) ==
    [w EXCEPT !.healthStatus.lastRepairAttempt = DateNow,
              !.healthStatus.repairAttempts = @ + 1,
              !.healthStatus.layersInitialized = TRUE]

\* The layer map after attemptRepair: layers.clear(), then addLayer of the
\* two layers the worker defines.
RepairedLayers ==
    LayersSet(LayersSet(<<>>, "drums", Layer(RepairDrumsVolume, FALSE)),
              "piano", Layer(RepairPianoVolume, FALSE))

\* What attemptRepair does to the engine.  Its test note is
\* playAdvancedSynth('piano', 'piano', 440, 0.01): the frequency is a string,
\* so playAdvancedSynthInternal throws at frequency.toFixed; on a running
\* context playAdvancedSynth catches that, on a suspended one the call waits
\* for resume().
Repair ==
    /\ layers' = RepairedLayers
    /\ managerLayers' = Unshared(managerLayers, DOMAIN layers)
    /\ activeSources' = [k \in DOMAIN activeSources \cup {"drums", "piano"} |->
                            IF k \in {"drums", "piano"} THEN <<>> ELSE activeSources[k]]
    /\ IF context = "suspended"
       THEN /\ Len(pending) < MaxPending
            /\ pending' = Append(pending, Request("playAdvancedSynthInternal", "0.01",
                                     "piano", 44000, NotANumber, NoSynthParams))
       ELSE UNCHANGED pending

\* Whether this check starts a repair.
StartsRepair(w) ==
    /\ w.config["enabled"]
    /\ windowInstance # Undefined
    /\ needsRepair(Observed(w, layers))
    /\ shouldAttemptRepair(Observed(w, layers))

\* The worker after checkAudioHealth, run against an engine whose layer map
\* is ls.
checkAudioHealth(w, ls) ==
    IF ~w.config["enabled"] THEN w
    ELSE IF windowInstance = Undefined
    THEN [w EXCEPT !.healthStatus.engineAvailable = FALSE]
    ELSE LET o == Observed(w, ls)
         IN IF needsRepair(o) /\ shouldAttemptRepair(o) THEN attemptRepair(o)
            ELSE IF o.healthStatus.layersInitialized /\ w.healthStatus.repairAttempts > 0
            THEN [o EXCEPT !.healthStatus.repairAttempts = 0]
            ELSE o

\* The frame of a health check: what it changes in the engine.
CheckEffects ==
    /\ IF StartsRepair(worker) THEN Repair
       ELSE UNCHANGED <<layers, activeSources, pending, managerLayers>>
    /\ call' = Call("checkAudioHealth", "", "")
    /\ UNCHANGED <<sustainedNotes, chains, timers, now, context, voices, bootVars,
                   engineVars, noteVars, wavVars, instrumentLayers>>

\* An interval timer of the worker fires.
intervalFires ==
    /\ \E t \in worker.intervals : worker' = checkAudioHealth(worker, layers)
    /\ CheckEffects

\* The timeout of an initial check fires.
timeoutFires ==
    /\ worker.timeouts > 0
    /\ worker' = [checkAudioHealth(worker, layers) EXCEPT !.timeouts = @ - 1]
    /\ CheckEffects

\* forceRepair(): resets the counters, repairs, then runs a health check.
forceRepair ==
    /\ call' = Call("forceRepair", "", "")
    /\ IF windowInstance = Undefined
       THEN UNCHANGED <<worker, layers, activeSources, pending, managerLayers>>
       ELSE /\ worker' = checkAudioHealth(
                            attemptRepair([worker EXCEPT
                                !.healthStatus.repairAttempts = 0,
                                !.healthStatus.lastRepairAttempt = 0]),
                            RepairedLayers)
            /\ Repair
    /\ UNCHANGED <<sustainedNotes, chains, timers, now, context, voices, bootVars,
                   engineVars, noteVars, wavVars, instrumentLayers>>

startCall ==
    /\ worker' = start(worker)
    /\ worker'.timeouts <= MaxTimeouts
    /\ call' = Call("start", "", "")
    /\ UNCHANGED <<playbackVars, noteVars, wavVars, appVars>>

stopCall ==
    /\ worker' = stop(worker)
    /\ call' = Call("stop", "", "")
    /\ UNCHANGED <<playbackVars, noteVars, wavVars, appVars>>

setEnabledCall(enabled) ==
    /\ worker' = setEnabled(worker, enabled)
    /\ worker'.timeouts <= MaxTimeouts
    /\ call' = Call("setEnabled", "", "")
    /\ UNCHANGED <<playbackVars, noteVars, wavVars, appVars>>

updateConfigCall(newConfig) ==
    /\ worker' = updateConfig(worker, newConfig)
    /\ worker'.timeouts <= MaxTimeouts
    /\ call' = Call("updateConfig", "", "")
    /\ UNCHANGED <<playbackVars, noteVars, wavVars, appVars>>

\* engine.dispose()
dispose ==
    /\ layers' = <<>>
    /\ activeSources' = <<>>
    /\ bufferPool' = <<>>
    /\ masterGain' = [masterGain EXCEPT !.toLimiter = FALSE, !.recorders = 0]
    /\ limiter' = [limiter EXCEPT !.toDestination = FALSE]
    /\ managerLayers' = Unshared(managerLayers, DOMAIN layers)
    /\ call' = Call("dispose", "", "")
    /\ UNCHANGED <<sustainedNotes, chains, timers, now, oneShotVars, bootVars, nodesFail,
                   globalInstrumentVolume, testTimers, loads, noteVars, wavVars, worker,
                   instrumentLayers>>

\* Time passes while the worker polls.
timePasses(d) ==
    /\ now + d <= MaxUptime
    /\ now' = now + d
    /\ call' = Call("timePasses", "", "")
    /\ UNCHANGED <<layers, activeSources, sustainedNotes, chains, timers,
                   oneShotVars, bootVars, engineVars, auxVars>>

NewConfigs == {("checkInterval" :> 5000), ("maxRetries" :> 1), ("enabled" :> FALSE)}

WorkerNext ==
    \/ startCall
    \/ stopCall
    \/ \E enabled \in BOOLEAN : setEnabledCall(enabled)
    \/ \E newConfig \in NewConfigs : updateConfigCall(newConfig)
    \/ intervalFires
    \/ timeoutFires
    \/ forceRepair
    \/ \E l \in MixerLayerIds : addLayer(l, 100, TRUE)
    \/ dispose
    \/ timePasses(RetryDelay)

WorkerSpec == MixerInit /\ [][WorkerNext]_vars

\* C34: the automatic health check respects the retry limits: a check starts
\* a repair only when repairAttempts is below maxRetries and at least
\* retryDelay milliseconds have passed since the previous attempt, so the
\* counter of repairs since its last reset never passes maxRetries through an
\* automatic repair.
C34_RetryLimits ==
    [][(/\ call'.op = "checkAudioHealth"
        /\ worker'.healthStatus.repairAttempts = worker.healthStatus.repairAttempts + 1)
          => /\ worker.healthStatus.repairAttempts < worker.config["maxRetries"]
             /\ DateNow - worker.healthStatus.lastRepairAttempt >= worker.config["retryDelay"]
             /\ worker'.healthStatus.repairAttempts <= worker.config["maxRetries"]]_vars

\* C34 witness: five automatic repairs have been started since the counter
\* was last reset, the engine has lost its layers again, and the health check
\* that ran last, on a running context after the retry delay, started no
\* sixth one.
C34_Witness ==
    /\ call.op = "checkAudioHealth"
    /\ worker.config["enabled"]
    /\ worker.config["maxRetries"] = MaxRetries
    /\ worker.healthStatus.repairAttempts = MaxRetries
    /\ worker.healthStatus.timestamp = DateNow
    /\ DateNow - worker.healthStatus.lastRepairAttempt >= worker.config["retryDelay"]
    /\ ~worker.healthStatus.layersInitialized
    /\ layers = <<>>
    /\ context = "running"

\* C35: the worker keeps at most one polling timer: isRunning is true exactly
\* when one interval timer is installed, that timer is the one intervalId
\* names, and when the worker is not running no interval timer remains.
C35_OnePollingTimer ==
    /\ Cardinality(worker.intervals) <= 1
    /\ worker.isRunning <=> Cardinality(worker.intervals) = 1
    /\ worker.isRunning => \A t \in worker.intervals : t.id = worker.intervalId
    /\ ~worker.isRunning => worker.intervalId = Undefined

\* C35 witness: start() was called on a worker that was running already (no
\* new initial check is pending), and one interval timer is installed.
C35_Witness ==
    /\ call.op = "start"
    /\ worker.isRunning
    /\ worker.timeouts = 0
    /\ Cardinality(worker.intervals) = 1

\* C36: updateConfig with a checkInterval different from the current one,
\* called while the worker is running, restarts the monitor: afterwards the
\* installed interval timer has the new interval.
C36_NewIntervalTakesEffect ==
    [][(/\ call'.op = "updateConfig"
        /\ worker.isRunning
        /\ worker'.config["checkInterval"] # worker.config["checkInterval"])
          => \A t \in worker'.intervals :
                t.checkInterval = worker'.config["checkInterval"]]_vars

\* C38: a repair, automatic or forced, keeps every layer that was in the
\* engine's layer map before it, with its volume and mute state.
C38_RepairKeepsLayers ==
    [][call'.op \in {"checkAudioHealth", "forceRepair"}
          => \A l \in DOMAIN layers : hasLayer(layers', l) /\ layers'[l] = layers[l]]_vars

\* ------------------------------------------------------ the application
\* The handlers of App once the audio is ready, next to one-shot triggers on a
\* context the browser suspends and resumes.

\* App.updateLayerVolume(layerId, volume) once the audio is ready: the state,
\* engine.updateLayerVolume and instrumentManager.updateLayerVolume, which
\* write the same value.
AppUpdateLayerVolume(layerId, volume) ==
    /\ instrumentLayers' = IF layerId \in DOMAIN instrumentLayers
                           THEN [instrumentLayers EXCEPT ![layerId].volume = volume]
                           ELSE instrumentLayers
    /\ layers' = IF hasLayer(layers, layerId)
                 THEN [layers EXCEPT ![layerId].volume = volume]
                 ELSE layers
    /\ call' = [Call("App.updateLayerVolume", layerId, "") EXCEPT !.volume = volume]
    /\ UNCHANGED <<activeSources, sustainedNotes, chains, timers, now, oneShotVars,
                   bootVars, engineVars, noteVars, wavVars, worker, managerLayers>>

\* layer.muted = !layer.muted on the object a map holds under layerId.
Toggled(ls, layerId) ==
    IF hasLayer(ls, layerId) THEN [ls EXCEPT ![layerId].muted = ~@] ELSE ls

\* The engine's map after instrumentManager.toggleLayerMute(layerId): the
\* manager flips the object of its own map, which is the engine's object when
\* the entry is shared.
ManagerToggled(ls, ms, layerId) ==
    IF layerId \in DOMAIN ms /\ ms[layerId].shared THEN Toggled(ls, layerId) ELSE ls

\* App.toggleLayerMute(layerId) once the audio is ready: the state gets a copy
\* of the layer with muted flipped, then engine.toggleLayerMute(layerId), then
\* instrumentManager.toggleLayerMute(layerId).
AppToggleLayerMute(layerId) ==
    /\ instrumentLayers' = Toggled(instrumentLayers, layerId)
    /\ layers' = ManagerToggled(Toggled(layers, layerId), managerLayers, layerId)
    /\ call' = Call("App.toggleLayerMute", layerId, "")
    /\ UNCHANGED <<activeSources, sustainedNotes, chains, timers, now, oneShotVars,
                   bootVars, engineVars, noteVars, wavVars, worker, managerLayers>>

\* The application renders the pads and keys of the layers of its state only:
\* a layer that is not shown cannot be triggered.
Shown(layerId) == layerId \in DOMAIN instrumentLayers

AppNext ==
    \/ \E l \in MixerLayerIds : AppToggleLayerMute(l)
    \/ \E v \in MixerVolumes : AppUpdateLayerVolume("piano", v)
    \/ \E l \in MixerLayerIds : \E r \in Remaining(l) : removeLayer(l, r)
    \/ \E v \in Velocities : Shown("drums") /\ playSample("kick", "drums", v)
    \/ \E f \in Frequencies, v \in Velocities :
          Shown("piano") /\ playAdvancedSynth(f, "piano", v, "synth", NoSynthParams)
    \/ resumed
    \/ suspended

\* The page after initializeAudio has resolved: every layer of the state was
\* given, as one object, to engine.addLayer and to
\* instrumentManager.addInstrumentLayer.
AppInit ==
    /\ instrumentLayers = ("drums" :> Layer(RepairDrumsVolume, FALSE))
                          @@ ("piano" :> Layer(RepairPianoVolume, FALSE))
    /\ layers = instrumentLayers
    /\ activeSources = [l \in DOMAIN instrumentLayers |-> <<>>]
    /\ managerLayers = [l \in DOMAIN instrumentLayers |-> [shared |-> TRUE]]
    /\ call = [Call("addLayer", "piano", "") EXCEPT !.volume = RepairPianoVolume]
    /\ Initialized
    /\ NoteIdle
    /\ WavIdle
    /\ WorkerInit

AppSpec == AppInit /\ [][AppNext]_vars

\* C39: after any sequence of App.toggleLayerMute calls once the audio is
\* ready, the muted flag of every layer in the engine equals the muted flag of
\* that layer in the application's state: one toggle flips the engine's flag
\* once.
C39_MuteMatchesState ==
    /\ \A l \in DOMAIN instrumentLayers :
          hasLayer(layers, l) => layers[l].muted = instrumentLayers[l].muted
    /\ [][call'.op = "App.toggleLayerMute" /\ hasLayer(layers, call'.layerId)
            => layers'[call'.layerId].muted = ~layers[call'.layerId].muted]_vars

\* The callback that waited longest for context.resume() runs: a playback
\* request made while its layer was present and unmuted.
RetryRuns ==
    /\ pending # <<>>
    /\ pending' = Tail(pending)
    /\ context' = "running"
    /\ Head(pending).op \in {"playSampleInternal", "playAdvancedSynthInternal"}
    /\ Head(pending).onPlayable

\* C37: when the layer of a playSample / playAdvancedSynth call made on a
\* suspended context was muted in the engine, or removed by the application,
\* between the call and the completion of the resume, the retried playback
\* builds no chain.
C37_RetryRechecksLayer ==
    [][(/\ RetryRuns
        /\ \/ Head(pending).layerId \notin DOMAIN instrumentLayers
           \/ ~Playable(layers, Head(pending).layerId))
          => voices' = voices]_vars

\* ------------------------------------------------- offline WAV rendering
\* The WAVGenerator renders samples on offline contexts while the engine
\* plays.

\* What an OfflineContext(2, duration, sampleRate) renders: two channels at
\* the generator's sample rate.
RenderedBuffers ==
    {AudioBuffer(SampleRate, d) :
        d \in UNION {[1..OfflineChannels -> [1..l -> SampleValues]] : l \in 1..MaxRenderedFrames}}

\* The synchronous part of generateDrumSample / generateNoteSample: a new
\* OfflineContext becomes the context of Tone (Tone.setContext(context)), the
\* source, envelope and filter are built on it, and context.render() is
\* awaited.
generateSample(op) ==
    /\ ~rendering
    /\ toneContext' = "offline"
    /\ rendering' = TRUE
    /\ call' = Call(op, "", "")
    /\ UNCHANGED <<playbackVars, noteVars, wavBuffer, wavBytes, worker, appVars>>

generateDrumSample == generateSample("generateDrumSample")

generateNoteSample == generateSample("generateNoteSample")

\* The render resolves: the rendered buffer is converted by bufferToWAV and
\* the promise of generateDrumSample / generateNoteSample resolves.
rendered ==
    /\ rendering
    /\ rendering' = FALSE
    /\ \E b \in RenderedBuffers :
          /\ wavBuffer' = b
          /\ wavBytes' = bufferToWAV(b)
    /\ call' = Call("rendered", "", "")
    /\ UNCHANGED <<playbackVars, noteVars, toneContext, worker, appVars>>

ExportNext ==
    \/ generateDrumSample
    \/ generateNoteSample
    \/ rendered
    \/ \E v \in Velocities : playSample("kick", "drums", v)
    \/ \E f \in Frequencies, v \in Velocities :
          playAdvancedSynth(f, "piano", v, "synth", NoSynthParams)

ExportSpec == AppInit /\ [][ExportNext]_vars

\* C40: after generateDrumSample or generateNoteSample has completed, the
\* context Tone builds nodes on is the engine's live context again, and an
\* engine trigger that follows builds its voice on the live context.
C40_LiveContextRestored ==
    /\ (wavBytes # <<>> /\ ~rendering) => toneContext = "live"
    /\ [][(wavBytes # <<>> /\ ~rendering /\ Len(voices') > Len(voices))
            => toneContext = "live"]_vars

====
